---- MODULE Spec2Model ----
(***************************************************************************)
(* A model of the trading bias detector: the /analyze endpoint of          *)
(* backend/app/main.py and the analysis pipeline of                        *)
(* backend/app/bias_engine.py (parse_csv_to_dataframe, preprocess_trades,  *)
(* the six detectors and run_analysis).                                    *)
(*                                                                         *)
(* Numbers.  The engine computes in float64; the model computes the same   *)
(* expressions exactly, over rationals [n, d] with d > 0.  Cell values are *)
(* integers.  A polars null is the value Null, an infinite float the value *)
(* Inf, a cell that does not parse as a number the value Garbage.          *)
(* Timestamps are instants in whole epoch seconds.                         *)
(*                                                                         *)
(* Unspecified order.  DataFrame.sort (maintain_order=False) leaves the    *)
(* order of rows with equal keys open, and DataFrame.unique (keep="any",   *)
(* maintain_order=False) leaves open which row of a group of duplicates is *)
(* kept and in which order the rows come out.  Both are modelled as a      *)
(* choice over every outcome the library allows.                           *)
(***************************************************************************)
EXTENDS Integers, Sequences, FiniteSets, TLC

----------------------------------------------------------------------------
(* Bounds of the model *)

\* longest table whose rows are drawn freely from RowDomain
MaxRows == 2
\* number of rows of the generated long tables
BulkRows == 12
\* largest upload, in whole chunks above the ceiling, that the model sends
MaxOverChunks == 1
(* rows of the long table with a single revenge trade *)
SparseRows == 28
(* rows of the table whose trades all fall in one clock hour *)
HourRows == 6
(* rows beyond TRADES_RESPONSE_CAP of the longest cleaned frame *)
MaxOverCap == 2

----------------------------------------------------------------------------
(* Values *)

Null == -1000000
Inf == 1000000
Garbage == 999999

IsNull(v) == v = Null
IsFinite(v) == v # Null /\ v # Inf

Range(s) == {s[i] : i \in 1..Len(s)}

Min2(a, b) == IF a <= b THEN a ELSE b
Max2(a, b) == IF a >= b THEN a ELSE b
Abs(a) == IF a < 0 THEN -a ELSE a

RECURSIVE Gcd(_, _)
Gcd(a, b) == IF b = 0 THEN a ELSE Gcd(b, a % b)

RECURSIVE SumSeq(_)
SumSeq(s) == IF Len(s) = 0 THEN 0 ELSE s[1] + SumSeq(Tail(s))

RemoveAt(s, i) == SubSeq(s, 1, i - 1) \o SubSeq(s, i + 1, Len(s))

----------------------------------------------------------------------------
(* Exact arithmetic on rationals [n |-> numerator, d |-> denominator > 0] *)

Rat(n, d) ==
    LET g == Gcd(Abs(n), Abs(d))
        s == IF d < 0 THEN -1 ELSE 1
    IN  IF n = 0 THEN [n |-> 0, d |-> 1] ELSE [n |-> s * (n \div g), d |-> s * (d \div g)]

RInt(k) == [n |-> k, d |-> 1]
RAdd(a, b) ==
    LET g == Gcd(a.d, b.d)
    IN  Rat(a.n * (b.d \div g) + b.n * (a.d \div g), (a.d \div g) * b.d)
RSub(a, b) == RAdd(a, [n |-> -b.n, d |-> b.d])
RMul(a, b) ==
    LET g1 == Gcd(Abs(a.n), b.d)
        g2 == Gcd(Abs(b.n), a.d)
        h1 == IF g1 = 0 THEN 1 ELSE g1
        h2 == IF g2 = 0 THEN 1 ELSE g2
    IN  Rat((a.n \div h1) * (b.n \div h2), (a.d \div h2) * (b.d \div h1))
\* a / b for b # 0
RDiv(a, b) == RMul(a, IF b.n < 0 THEN [n |-> -b.d, d |-> -b.n] ELSE [n |-> b.d, d |-> b.n])
RLt(a, b) == a.n * b.d < b.n * a.d
RLe(a, b) == a.n * b.d <= b.n * a.d
RMin(a, b) == IF RLe(a, b) THEN a ELSE b
RMax(a, b) == IF RLe(a, b) THEN b ELSE a

(* Python's round(x): to the nearest integer, a tie to the even one *)
Round(r) ==
    LET f == r.n \div r.d          \* floor, as d > 0
        rem == r.n - f * r.d
    IN  IF 2 * rem < r.d THEN f
        ELSE IF 2 * rem > r.d THEN f + 1
        ELSE IF f % 2 = 0 THEN f ELSE f + 1

(* the largest k with k * k <= x, for x >= 0 *)
RECURSIVE IsqrtFrom(_, _)
IsqrtFrom(x, k) == IF (k + 1) * (k + 1) > x THEN k ELSE IsqrtFrom(x, k + 1)
Isqrt(x) == IsqrtFrom(x, 0)

----------------------------------------------------------------------------
(* Column names after normalization, bias_engine.py 12-19 *)

COL_TIMESTAMP == "timestamp"
COL_ACTION == "action"
COL_ASSET == "asset"
COL_QUANTITY == "quantity"
COL_PRICE == "price"
COL_PNL == "pnl"
COL_BALANCE == "balance"

(* Headers accepted -> internal name *)
CSV_HEADER_MAP ==
    ("timestamp" :> COL_TIMESTAMP) @@ ("date" :> COL_TIMESTAMP) @@
    ("time" :> COL_TIMESTAMP) @@ ("datetime" :> COL_TIMESTAMP) @@
    ("buy/sell" :> COL_ACTION) @@ ("action" :> COL_ACTION) @@
    ("side" :> COL_ACTION) @@ ("type" :> COL_ACTION) @@
    ("asset" :> COL_ASSET) @@ ("symbol" :> COL_ASSET) @@ ("ticker" :> COL_ASSET) @@
    ("quantity" :> COL_QUANTITY) @@ ("qty" :> COL_QUANTITY) @@
    ("amount" :> COL_QUANTITY) @@ ("shares" :> COL_QUANTITY) @@
    ("price" :> COL_PRICE) @@ ("entry_price" :> COL_PRICE) @@
    ("p/l" :> COL_PNL) @@ ("pl" :> COL_PNL) @@ ("pnl" :> COL_PNL) @@
    ("profit" :> COL_PNL) @@
    ("balance" :> COL_BALANCE) @@ ("account_balance" :> COL_BALANCE)

TRADES_RESPONSE_CAP == 10000

(* c.strip() without lower() *)
StripLower_StripOnly(c) == IF c = " Date " THEN "Date" ELSE c

(* c.strip().lower() on the header texts the model sends *)
StripLower(c) ==
    CASE c = "Timestamp" -> "timestamp"
      [] c = "Date" -> "date"
      [] c = " Date " -> "date"
      [] c = "Time" -> "time"
      [] c = "Buy/Sell" -> "buy/sell"
      [] c = "Side" -> "side"
      [] c = "Asset" -> "asset"
      [] c = "Ticker" -> "ticker"
      [] c = "Quantity" -> "quantity"
      [] c = "Shares" -> "shares"
      [] c = "Price" -> "price"
      [] c = "Entry_Price" -> "entry_price"
      [] c = "P/L" -> "p/l"
      [] c = "Balance" -> "balance"
      [] c = "Notes" -> "notes"
      [] OTHER -> c

(* str.to_lowercase() on the action texts the model sends; a null stays null *)
ToLowercase(a) ==
    CASE a = "BUY" -> "buy"
      [] a = "Buy" -> "buy"
      [] a = "B" -> "b"
      [] a = "SELL" -> "sell"
      [] a = "Hold" -> "hold"
      [] OTHER -> a

(* str.strip_chars() on the asset texts the model sends *)
StripChars(a) ==
    CASE a = "  " -> ""
      [] a = " AAPL" -> "AAPL"
      [] OTHER -> a

NullStr == "<null>"

----------------------------------------------------------------------------
(* parse_csv_to_dataframe, bias_engine.py 52-84.                           *)
(* A CSV is [headers: Seq(STRING), rows: Seq(Seq(cell))]; a cell of a      *)
(* timestamp or numeric column is an integer, Null (empty) or Garbage      *)
(* (unparsable), a cell of a text column a string or NullStr (empty).      *)

REQUIRED == {COL_TIMESTAMP, COL_ACTION, COL_ASSET, COL_QUANTITY, COL_PRICE}

(* the column names after df.rename(rename), lines 56-61 *)
Renamed(headers) ==
    [j \in 1..Len(headers) |->
        LET key == StripLower(headers[j])
        IN  IF key \in DOMAIN CSV_HEADER_MAP THEN CSV_HEADER_MAP[key] ELSE headers[j]]

(* polars refuses a rename that gives two columns one name (DuplicateError) *)
HasDuplicate(cols) == \E i, j \in 1..Len(cols) : i < j /\ cols[i] = cols[j]

(* missing = required - set(df.columns), lines 63-66 *)
MissingColumns(cols) == REQUIRED \ Range(cols)

ColIdx(cols, name) == CHOOSE j \in 1..Len(cols) : cols[j] = name

(* cast(pl.Float64, strict=False): what does not parse becomes null *)
CastFloat(c) == IF c = Garbage THEN Null ELSE c

(* lines 71-77: "buy" for buy and b, "sell" for everything else, null included *)
(* the normalisation that keeps a text that is neither buy nor b *)
NormalizeAction_KeepsOther(a) ==
    IF ToLowercase(a) \in {"buy", "b"} THEN "buy" ELSE ToLowercase(a)
NormalizeAction(a) == IF ToLowercase(a) \in {"buy", "b"} THEN "buy" ELSE "sell"

(* one row of the frame after lines 69-81; an absent optional column reads Null *)
ParseRow(cols, raw) ==
    LET opt(name) == IF name \in Range(cols) THEN CastFloat(raw[ColIdx(cols, name)]) ELSE Null
    IN  [timestamp |-> raw[ColIdx(cols, COL_TIMESTAMP)],
         action |-> NormalizeAction(raw[ColIdx(cols, COL_ACTION)]),
         asset |-> raw[ColIdx(cols, COL_ASSET)],
         quantity |-> CastFloat(raw[ColIdx(cols, COL_QUANTITY)]),
         price |-> CastFloat(raw[ColIdx(cols, COL_PRICE)]),
         pnl |-> opt(COL_PNL),
         balance |-> opt(COL_BALANCE)]

(* str.to_datetime (strict) raises on a text that is no date, line 69 *)
DatetimeFails(cols, rows) ==
    \E i \in 1..Len(rows) : rows[i][ColIdx(cols, COL_TIMESTAMP)] = Garbage

(* df.sort(COL_TIMESTAMP): every order of the rows that is non-decreasing in  *)
(* timestamp (nulls first); rows with equal timestamps come in any order      *)
RECURSIVE SortOutcomes(_)
SortOutcomes(rows) ==
    IF Len(rows) = 0 THEN {<<>>}
    ELSE LET first == CHOOSE i \in 1..Len(rows) :
                          \A j \in 1..Len(rows) : rows[i].timestamp <= rows[j].timestamp
             cand == {i \in 1..Len(rows) : rows[i].timestamp = rows[first].timestamp}
         IN  UNION {{<<rows[i]>> \o t : t \in SortOutcomes(RemoveAt(rows, i))} : i \in cand}

(* how parse_csv_to_dataframe ends: "nodata" (read_csv of no bytes),       *)
(* "duplicate" and "datetime" are polars errors, none of them a ValueError; *)
(* "missing" is the ValueError of line 66                                  *)
ParseError(csv) ==
    LET cols == Renamed(csv.headers)
    IN  IF Len(csv.headers) = 0 THEN "nodata"
        ELSE IF HasDuplicate(cols) THEN "duplicate"
        ELSE IF MissingColumns(cols) # {} THEN "missing"
        ELSE IF DatetimeFails(cols, csv.rows) THEN "datetime"
        ELSE "none"

(* the frames parse_csv_to_dataframe may return, when it raises nothing *)
ParseOutcomes(csv) ==
    LET cols == Renamed(csv.headers)
        parsed == [i \in 1..Len(csv.rows) |-> ParseRow(cols, csv.rows[i])]
    IN  {[columns |-> Range(cols) \cap {COL_PNL, COL_BALANCE}, rows |-> s] :
            s \in SortOutcomes(parsed)}

----------------------------------------------------------------------------
(* preprocess_trades, bias_engine.py 87-151.                               *)
(* A frame is [columns: the optional columns it has, rows: Seq(row)].      *)

(* the validity predicates, lines 97-101 *)
valid_ts(r) == ~IsNull(r.timestamp)
valid_action(r) == r.action \in {"buy", "sell"}
valid_asset(r) == r.asset # NullStr /\ StripChars(r.asset) # ""
valid_qty(r) == ~IsNull(r.quantity) /\ IsFinite(r.quantity) /\ r.quantity > 0
(* the price predicate without its sign test *)
valid_price_AnySign(r) == ~IsNull(r.price) /\ IsFinite(r.price)
valid_price(r) == ~IsNull(r.price) /\ IsFinite(r.price) /\ r.price > 0

ValidRow(r) == valid_ts(r) /\ valid_action(r) /\ valid_asset(r) /\ valid_qty(r) /\ valid_price(r)

(* the timestamp range, lines 110-112 *)
min_ts == 631152000
max_ts == 1893456000
InRange(r) == r.timestamp >= min_ts /\ r.timestamp <= max_ts

(* ascending order of a sequence of integers *)
RECURSIVE SortInts(_)
SortInts(s) ==
    IF Len(s) = 0 THEN <<>>
    ELSE LET i == CHOOSE i \in 1..Len(s) : \A j \in 1..Len(s) : s[i] <= s[j]
         IN  <<s[i]>> \o SortInts(RemoveAt(s, i))

(* Series.quantile(q) with polars' default interpolation "nearest": the    *)
(* order statistic at index round((len - 1) * q), q = qn / 4               *)
Quantile(vals, qn) ==
    LET sorted == SortInts(vals)
        idx == ((Len(vals) - 1) * qn + 2) \div 4
    IN  sorted[idx + 1]

(* the pass with a filter that also drops the rows without a value *)
OutlierFilter_DropsNulls(columns, rows, col) ==
    LET s_clean == SelectSeq([i \in 1..Len(rows) |-> rows[i][col]], LAMBDA v : ~IsNull(v))
        q1 == Quantile(s_clean, 1)
        q3 == Quantile(s_clean, 3)
        iqr == q3 - q1
    IN  IF col \notin columns \/ Len(rows) < 10 THEN rows
        ELSE IF Len(s_clean) < 10 THEN rows
        ELSE IF iqr <= 0 THEN rows
        ELSE SelectSeq(rows, LAMBDA r : ~IsNull(r[col]) /\ 2 * r[col] >= 2 * q1 - 3 * iqr
                                        /\ 2 * r[col] <= 2 * q3 + 3 * iqr)

(* one pass of the loop of lines 118-142 for column col: the rows kept *)
OutlierFilter(columns, rows, col) ==
    LET s_clean == SelectSeq([i \in 1..Len(rows) |-> rows[i][col]], LAMBDA v : ~IsNull(v))
        q1 == Quantile(s_clean, 1)
        q3 == Quantile(s_clean, 3)
        iqr == q3 - q1
        \* low = q1 - 1.5 * iqr and high = q3 + 1.5 * iqr, doubled
        low2 == 2 * q1 - 3 * iqr
        high2 == 2 * q3 + 3 * iqr
    IN  IF col \notin columns \/ Len(rows) < 10 THEN rows
        ELSE IF Len(s_clean) < 10 THEN rows
        ELSE IF iqr <= 0 THEN rows
        ELSE SelectSeq(rows, LAMBDA r : IsNull(r[col]) \/ (2 * r[col] >= low2 /\ 2 * r[col] <= high2))

(* the subset of df.unique, line 146 *)
DedupKey(r) == <<r.timestamp, r.asset, r.action, r.quantity, r.price>>

(* df.unique(subset=..., keep="any"): one row of every group of rows with  *)
(* the same key, whichever; the order is settled by the sort that follows  *)
RECURSIVE UniqueOutcomes(_)
UniqueOutcomes(rows) ==
    IF Len(rows) = 0 THEN {<<>>}
    ELSE LET k == DedupKey(rows[1])
             same == {i \in 1..Len(rows) : DedupKey(rows[i]) = k}
             rest == SelectSeq(rows, LAMBDA r : DedupKey(r) # k)
         IN  {<<rows[i]>> \o t : i \in same, t \in UniqueOutcomes(rest)}

(* the final df.sort(COL_TIMESTAMP), line 150 *)
FinalSort(rows) == SortOutcomes(rows)

(* every (cleaned frame, stats) preprocess_trades may return for df *)
PreprocessOutcomes(df) ==
    LET stats0 == [rows_before |-> Len(df.rows), dropped_invalid |-> 0,
                   dropped_outliers |-> 0, dropped_duplicates |-> 0]
        valid == SelectSeq(df.rows, ValidRow)
        ranged == SelectSeq(valid, InRange)
        noPnl == OutlierFilter(df.columns, ranged, COL_PNL)
        noBal == OutlierFilter(df.columns, noPnl, COL_BALANCE)
    IN  IF Len(df.rows) = 0 THEN {[df |-> df, stats |-> stats0]}
        ELSE IF Len(valid) = 0
            THEN {[df |-> [df EXCEPT !.rows = <<>>],
                   stats |-> stats0 @@ [rows_after |-> 0]]}
        ELSE UNION {{[df |-> [df EXCEPT !.rows = s],
                      stats |-> [rows_before |-> Len(df.rows),
                                 dropped_invalid |-> Len(df.rows) - Len(ranged),
                                 dropped_outliers |-> (Len(ranged) - Len(noPnl))
                                                      + (Len(noPnl) - Len(noBal)),
                                 dropped_duplicates |-> Len(noBal) - Len(u),
                                 rows_after |-> Len(u)]] :
                        s \in FinalSort(u)} : u \in UniqueOutcomes(noBal)}

----------------------------------------------------------------------------
(* The detectors.  Each returns [result, indices]: the finding, or         *)
(* NoResult for Python's None, and the 0-based positions of the flagged    *)
(* rows (pl.int_range(0, n) over the cleaned frame).  A third field,       *)
(* computed, keeps the detector's local variable score, before rounding:   *)
(* <<score>> once the detector has computed it, <<>> when it returned      *)
(* before.  The code does not return it and the report does not read it.   *)

NoResult == [type |-> "none"]
(* return None, [] before a score is computed *)
Suppressed == [result |-> NoResult, indices |-> {}, computed |-> <<>>]
(* a return below the threshold that keeps a flag on the first row *)
Below_KeepsFlag(score) == [result |-> NoResult, indices |-> {0}, computed |-> <<score>>]
(* if score < 15: return None, [] *)
Below(score) == [result |-> NoResult, indices |-> {}, computed |-> <<score>>]

RECURSIVE RSum(_)
RSum(s) == IF Len(s) = 0 THEN RInt(0) ELSE RAdd(s[1], RSum(Tail(s)))

\* the sum of the values of a set of <<group, value>> pairs
RECURSIVE RSumPairs(_)
RSumPairs(S) ==
    IF S = {} THEN RInt(0)
    ELSE LET p == CHOOSE p \in S : TRUE
         IN  RAdd(p[2], RSumPairs(S \ {p}))

\* the positions of a set of integers in ascending order
RECURSIVE SetToSeq(_)
SetToSeq(S) ==
    IF S = {} THEN <<>>
    ELSE LET m == CHOOSE x \in S : \A y \in S : x <= y
         IN  <<m>> \o SetToSeq(S \ {m})

MaxOf(S) == CHOOSE x \in S : \A y \in S : x >= y

(* the severity breakpoints of overtrading, disposition, anchoring, confirmation *)
Severity75(score) ==
    IF RLt(RInt(75), score) THEN "critical"
    ELSE IF RLt(RInt(50), score) THEN "high"
    ELSE IF RLt(RInt(25), score) THEN "medium" ELSE "low"

(* the severity breakpoints of loss aversion and revenge trading *)
Severity70(score) ==
    IF RLt(RInt(70), score) THEN "critical"
    ELSE IF RLt(RInt(45), score) THEN "high"
    ELSE IF RLt(RInt(25), score) THEN "medium" ELSE "low"

(* a threshold of 10 instead of 15 *)
BelowThreshold_Ten(score) == RLt(score, RInt(10))

(* the suppression threshold: if score < 15: return None, [] *)
BelowThreshold(score) == RLt(score, RInt(15))

(* buckets of ten minutes instead of an hour *)
HourBucket_TenMinutes(ts) == ts - (ts % 600)

(* dt.truncate("1h") *)
HourBucket(ts) == ts - (ts % 3600)

(* _pct_bal > 0.1 and finite, with balance.replace(0.0, None), lines 174-180 *)
OverBalance(r) ==
    /\ ~IsNull(r.balance)
    /\ r.balance # 0
    /\ r.balance # Inf
    /\ r.balance > 0
    /\ 10 * (r.quantity * r.price) > r.balance

(* row indices counted from 1 *)
RowIdx_OneBased(i) == i

(* pl.int_range(0, n): the row index of the row at position i of the sequence *)
RowIdx(i) == i - 1

detect_overtrading(df) ==
    LET rows == df.rows
        n == Len(rows)
        hours == {HourBucket(rows[i].timestamp) : i \in 1..n}
        len(h) == Cardinality({i \in 1..n : HourBucket(rows[i].timestamp) = h})
        max_per_hour == MaxOf({len(h) : h \in hours})
        overtrading_by_freq == max_per_hour > 5
        bal_indices == IF COL_BALANCE \in df.columns
                       THEN {RowIdx(i) : i \in {j \in 1..n : OverBalance(rows[j])}}
                       ELSE {}
        freq_indices == {RowIdx(i) : i \in {j \in 1..n : len(HourBucket(rows[j].timestamp)) > 5}}
        biased_indices == IF overtrading_by_freq THEN bal_indices \cup freq_indices
                          ELSE bal_indices
        mean_per_hour == Rat(n, Cardinality(hours))
        freq_ratio == RDiv(RInt(max_per_hour), RMax(mean_per_hour, Rat(1, 2)))
        freq_part == IF RLt(RInt(1), freq_ratio)
                     THEN RMin(RInt(50), RMul(RSub(freq_ratio, RInt(1)), RInt(25)))
                     ELSE RInt(0)
        pct_over_balance == Rat(Cardinality(biased_indices), Max2(n, 1))
        bal_part == RMin(RInt(50), RMul(pct_over_balance, RInt(250)))
        score == RMin(RInt(100), RAdd(freq_part, bal_part))
    IN  IF n < 2 THEN Suppressed
        ELSE IF BelowThreshold(score) THEN Below(score)
        ELSE [result |-> [type |-> "overtrading",
                          severity |-> Severity75(score),
                          details |-> [max_trades_per_hour |-> max_per_hour,
                                       mean_trades_per_hour |-> mean_per_hour,
                                       biased_trade_count |-> Cardinality(biased_indices)],
                          score |-> Round(score)],
              indices |-> biased_indices,
              computed |-> <<score>>]

(* a row counts as losing whatever the sign of its pnl *)
IsLosing_AnySign(r) == ~IsNull(r.pnl)

(* pl.col(COL_PNL) < 0 in the filters of the flagged rows, lines 270 and 384 *)
IsLosing(r) == ~IsNull(r.pnl) /\ r.pnl < 0

(* the median of a non-empty sequence of integers, as polars computes it *)
Median(vals) ==
    LET sorted == SortInts(vals)
        k == Len(vals)
    IN  IF k % 2 = 1 THEN RInt(sorted[(k + 1) \div 2])
        ELSE Rat(sorted[k \div 2] + sorted[k \div 2 + 1], 2)

detect_loss_aversion(df) ==
    LET rows == df.rows
        n == Len(rows)
        \* timestamp.diff().dt.total_seconds(): null for the first row
        duration(i) == IF i = 1 THEN Null ELSE rows[i].timestamp - rows[i - 1].timestamp
        wins == {i \in 1..n : ~IsNull(rows[i].pnl) /\ rows[i].pnl > 0}
        losses == {i \in 1..n : ~IsNull(rows[i].pnl) /\ rows[i].pnl < 0}
        wins_valid == {i \in wins : ~IsNull(duration(i))}
        losses_valid == {i \in losses : ~IsNull(duration(i))}
        durs(S) == [k \in 1..Cardinality(S) |-> duration(SetToSeq(S)[k])]
        pnls(S) == [k \in 1..Cardinality(S) |-> Abs(rows[SetToSeq(S)[k]].pnl)]
        avg_duration_win == Rat(SumSeq(durs(wins_valid)), Cardinality(wins_valid))
        avg_duration_loss == Rat(SumSeq(durs(losses_valid)), Cardinality(losses_valid))
        avg_loss == Rat(SumSeq(pnls(losses)), Cardinality(losses))
        avg_win == Rat(SumSeq(pnls(wins)), Cardinality(wins))
        loss_win_ratio == IF avg_win.n # 0 THEN RDiv(avg_loss, avg_win) ELSE RInt(0)
        duration_ratio == IF avg_duration_win.n > 0
                          THEN RDiv(avg_duration_loss, avg_duration_win) ELSE RInt(0)
        dur_part == IF RLt(Rat(11, 10), duration_ratio)
                    THEN RMin(RInt(50), RMul(RSub(duration_ratio, RInt(1)), RInt(40)))
                    ELSE RInt(0)
        size_part == IF RLt(Rat(11, 10), loss_win_ratio)
                     THEN RMin(RInt(50), RMul(RSub(loss_win_ratio, RInt(1)), RInt(25)))
                     ELSE RInt(0)
        score == RMin(RInt(100), RAdd(dur_part, size_part))
        median_loss_duration == Median(durs(losses_valid))
        biased_indices == {RowIdx(i) : i \in {j \in 1..n :
                              /\ IsLosing(rows[j])
                              /\ ~IsNull(duration(j))
                              /\ RLe(median_loss_duration, RInt(duration(j)))}}
    IN  IF COL_PNL \notin df.columns \/ n < 3 THEN Suppressed
        ELSE IF wins = {} \/ losses = {} THEN Suppressed
        ELSE IF wins_valid = {} \/ losses_valid = {} THEN Suppressed
        ELSE IF BelowThreshold(score) THEN Below(score)
        ELSE [result |-> [type |-> "loss_aversion",
                          severity |-> Severity70(score),
                          details |-> [avg_duration_win |-> avg_duration_win,
                                       avg_duration_loss |-> avg_duration_loss,
                                       loss_win_ratio |-> loss_win_ratio],
                          score |-> Round(score)],
              indices |-> biased_indices,
              computed |-> <<score>>]

(* the mask without the test _dt_sec > 0 *)
RevengeMask_ZeroGap(df, i) ==
    LET rows == df.rows
        prev_pnl == IF COL_PNL \in df.columns /\ i > 1 THEN rows[i - 1].pnl ELSE Null
        dt_sec == IF i > 1 THEN rows[i].timestamp - rows[i - 1].timestamp ELSE Null
        prev_qty == IF i > 1 THEN rows[i - 1].quantity ELSE 0
    IN  /\ ~IsNull(prev_pnl) /\ prev_pnl < 0
        /\ ~IsNull(dt_sec) /\ dt_sec <= 30 * 60
        /\ 2 * rows[i].quantity > 3 * prev_qty

(* the revenge mask of lines 317-322 for the row at position i *)
RevengeMask(df, i) ==
    LET rows == df.rows
        prev_pnl == IF COL_PNL \in df.columns /\ i > 1 THEN rows[i - 1].pnl ELSE Null
        dt_sec == IF i > 1 THEN rows[i].timestamp - rows[i - 1].timestamp ELSE Null
        prev_qty == IF i > 1 THEN rows[i - 1].quantity ELSE 0
    IN  /\ ~IsNull(prev_pnl) /\ prev_pnl < 0
        /\ ~IsNull(dt_sec) /\ dt_sec <= 30 * 60
        /\ dt_sec > 0
        /\ 2 * rows[i].quantity > 3 * prev_qty

detect_revenge_trading(df) ==
    LET n == Len(df.rows)
        biased_indices == {RowIdx(i) : i \in {j \in 1..n : RevengeMask(df, j)}}
        count == Cardinality(biased_indices)
        revenge_rate == Rat(count, Max2(n, 1))
        score == IF count # 0 THEN RMin(RInt(100), RMul(revenge_rate, RInt(400))) ELSE RInt(0)
    IN  IF n < 2 THEN Suppressed
        ELSE IF BelowThreshold(score) THEN Below(score)
        ELSE [result |-> [type |-> "revenge_trading",
                          severity |-> Severity70(score),
                          details |-> [revenge_trade_count |-> count, total_trades |-> n],
                          score |-> Round(score)],
              indices |-> biased_indices,
              computed |-> <<score>>]

(* _ret = pnl / |quantity * price| with a zero notional replaced by null,  *)
(* lines 359-360; only read where pnl is not null                          *)
Ret(r) == Rat(r.pnl, Abs(r.quantity * r.price))
RetFinite(r) == ~IsNull(r.pnl) /\ r.quantity * r.price # 0
RAbs(a) == [n |-> Abs(a.n), d |-> a.d]

detect_disposition_effect(df) ==
    LET rows == df.rows
        n == Len(rows)
        wins == {i \in 1..n : RetFinite(rows[i]) /\ rows[i].pnl > 0}
        losses == {i \in 1..n : RetFinite(rows[i]) /\ rows[i].pnl < 0}
        moves(S) == [k \in 1..Cardinality(S) |-> RAbs(Ret(rows[SetToSeq(S)[k]]))]
        avg_win_move == RDiv(RSum(moves(wins)), RInt(Cardinality(wins)))
        avg_loss_move == RDiv(RSum(moves(losses)), RInt(Cardinality(losses)))
        move_ratio == RDiv(avg_loss_move, avg_win_move)
        loss_share == Rat(Cardinality(losses), Max2(n, 1))
        score == RMin(RInt(100),
                      RAdd(RMax(RInt(0), RMul(RSub(move_ratio, RInt(1)), RInt(55))),
                           RMin(RInt(35), RMul(loss_share, RInt(35)))))
        biased_indices == {RowIdx(i) : i \in {j \in 1..n :
                              /\ IsLosing(rows[j])
                              /\ RetFinite(rows[j])
                              /\ RLe(avg_win_move, RAbs(Ret(rows[j])))}}
    IN  IF COL_PNL \notin df.columns \/ n < 8 THEN Suppressed
        ELSE IF Cardinality(wins) < 3 \/ Cardinality(losses) < 3 THEN Suppressed
        ELSE IF avg_win_move.n <= 0 THEN Suppressed
        ELSE IF RLe(move_ratio, Rat(12, 10)) THEN Suppressed
        ELSE IF BelowThreshold(score) THEN Below(score)
        ELSE [result |-> [type |-> "disposition_effect",
                          severity |-> Severity75(score),
                          details |-> [loser_to_winner_move_ratio |-> move_ratio,
                                       flagged_trade_count |-> Cardinality(biased_indices)],
                          score |-> Round(score)],
              indices |-> biased_indices,
              computed |-> <<score>>]

(* floor(num * 10^digits / den) for 0 <= num < den, by long division *)
RECURSIVE FracDigits(_, _, _)
FracDigits(num, den, digits) ==
    IF digits = 0 THEN 0
    ELSE LET d == (num * 10) \div den
             rest == FracDigits((num * 10) % den, den, digits - 1)
             RECURSIVE Pow10(_)
             Pow10(k) == IF k = 0 THEN 1 ELSE 10 * Pow10(k - 1)
         IN  d * Pow10(digits - 1) + rest

(* an asset enters the aggregates with two trades *)
EnoughTrades_Two(count) == count >= 2

(* pl.col("_count") >= 4, lines 430 and 492 *)
EnoughTrades(count) == count >= 4

(* the per-asset aggregates of lines 421-430 over the rows of one asset:   *)
(* cv2 is (std / mean)^2 with the sample standard deviation, exactly       *)
AssetRows(rows, a) == SelectSeq(rows, LAMBDA r : r.asset = a)
PriceCv2(rows, a) ==
    LET ps == [i \in 1..Len(AssetRows(rows, a)) |-> AssetRows(rows, a)[i].price]
        k == Len(ps)
        sum == SumSeq(ps)
        sumsq == SumSeq([i \in 1..k |-> ps[i] * ps[i]])
    IN  RDiv(Rat(k * sumsq - sum * sum, k - 1), Rat(sum * sum, k))

(* _cv in thousandths, rounded down: the square root is not rational *)
PriceCvMilli(rows, a) ==
    LET c == PriceCv2(rows, a)
    IN  IF c.n >= c.d THEN 1000 ELSE Isqrt(FracDigits(c.n, c.d, 6))

detect_anchoring_bias(df) ==
    LET rows == df.rows
        n == Len(rows)
        assets == {rows[i].asset : i \in 1..n}
        count(a) == Len(AssetRows(rows, a))
        \* prices of a cleaned frame are positive, so is their mean
        grouped == {a \in assets : EnoughTrades(count(a))}
        \* _cv <= 0.06
        anchored_assets == {a \in grouped : RLe(PriceCv2(rows, a), Rat(36, 10000))}
        anchored_rows == {i \in 1..n : rows[i].asset \in anchored_assets}
        anchored_trade_count == Cardinality(anchored_rows)
        anchored_share == Rat(anchored_trade_count, Max2(n, 1))
        cvs == {<<a, RInt(PriceCvMilli(rows, a))>> : a \in anchored_assets}
        avg_cv == RDiv(RSumPairs(cvs), RInt(1000 * Cardinality(anchored_assets)))
        tightness == RMax(RInt(0), RDiv(RSub(Rat(8, 100), avg_cv), Rat(8, 100)))
        score == RMin(RInt(100),
                      RAdd(RAdd(RMul(anchored_share, RInt(70)), RMul(tightness, RInt(20))),
                           RInt(Cardinality(anchored_assets) * 6)))
    IN  IF n < 10 THEN Suppressed
        ELSE IF grouped = {} THEN Suppressed
        ELSE IF anchored_assets = {} THEN Suppressed
        ELSE IF BelowThreshold(score) THEN Below(score)
        ELSE [result |-> [type |-> "anchoring",
                          severity |-> Severity75(score),
                          details |-> [anchored_asset_count |-> Cardinality(anchored_assets),
                                       anchored_trade_count |-> anchored_trade_count],
                          score |-> Round(score)],
              indices |-> {RowIdx(i) : i \in anchored_rows},
              computed |-> <<score>>]

(* the per-asset aggregates of lines 486-502 *)
BuyCount(rows, a) == Len(SelectSeq(rows, LAMBDA r : r.asset = a /\ r.action = "buy"))
SellCount(rows, a) == Len(SelectSeq(rows, LAMBDA r : r.asset = a /\ r.action = "sell"))
DominantSide(rows, a) == IF BuyCount(rows, a) >= SellCount(rows, a) THEN "buy" ELSE "sell"
DominantRatio(rows, a) ==
    Rat(Max2(BuyCount(rows, a), SellCount(rows, a)), Len(AssetRows(rows, a)))

detect_confirmation_bias(df) ==
    LET rows == df.rows
        n == Len(rows)
        assets == {rows[i].asset : i \in 1..n}
        by_asset == {a \in assets : EnoughTrades(Len(AssetRows(rows, a)))}
        \* _dominant_ratio >= 0.82
        biased_assets == {a \in by_asset : RLe(Rat(82, 100), DominantRatio(rows, a))}
        biased_rows == {i \in 1..n : /\ rows[i].asset \in biased_assets
                                     /\ rows[i].action = DominantSide(rows, rows[i].asset)}
        biased_trade_share == Rat(Cardinality(biased_rows), Max2(n, 1))
        ratios == {<<a, DominantRatio(rows, a)>> : a \in biased_assets}
        avg_ratio == RDiv(RSumPairs(ratios), RInt(Cardinality(biased_assets)))
        score == RMin(RInt(100),
                      RAdd(RAdd(RMul(biased_trade_share, RInt(65)),
                                RMul(RMax(RInt(0), RSub(avg_ratio, Rat(7, 10))), RInt(100))),
                           RInt(Cardinality(biased_assets) * 5)))
    IN  IF n < 10 THEN Suppressed
        ELSE IF by_asset = {} THEN Suppressed
        ELSE IF biased_assets = {} THEN Suppressed
        ELSE IF BelowThreshold(score) THEN Below(score)
        ELSE [result |-> [type |-> "confirmation_bias",
                          severity |-> Severity75(score),
                          details |-> [biased_asset_count |-> Cardinality(biased_assets),
                                       biased_trade_count |-> Cardinality(biased_rows)],
                          score |-> Round(score)],
              indices |-> {RowIdx(i) : i \in biased_rows},
              computed |-> <<score>>]

----------------------------------------------------------------------------
(* run_analysis, bias_engine.py 551-647 *)

KINDS == <<"overtrading", "loss_aversion", "revenge_trading",
           "disposition_effect", "anchoring", "confirmation_bias">>

(* the flags of the empty report without the anchoring list *)
EmptyFlags_Five == [k \in Range(KINDS) \ {"anchoring"} |-> {}]

EmptyFlags == [k \in Range(KINDS) |-> {}]

(* one entry of trades_out, lines 577-591; strftime keeps the whole second *)
TradeOut(r) ==
    [timestamp |-> r.timestamp, buy_sell |-> r.action, asset |-> r.asset,
     quantity |-> r.quantity, price |-> r.price, p_l |-> r.pnl, balance |-> r.balance]

(* lines 593-595: trades per hour of day *)
HourCounts(rows) ==
    [h \in 1..24 |-> Cardinality({i \in 1..Len(rows) : (rows[i].timestamp \div 3600) % 24 = h - 1})]

(* the findings left in the order of the detector calls *)
SortByScoreDesc_Unsorted(bs) == bs

(* the whole of df.select(select_exprs), without head *)
TradesOut_Uncapped(rows) == [i \in 1..Len(rows) |-> TradeOut(rows[i])]

(* trades_out, line 596: df.select(select_exprs).head(TRADES_RESPONSE_CAP) *)
TradesOut(rows) ==
    [i \in 1..Min2(Len(rows), TRADES_RESPONSE_CAP) |-> TradeOut(rows[i])]

(* biases.sort(key=score, reverse=True): stable, descending by score *)
RECURSIVE SortByScoreDesc(_)
SortByScoreDesc(bs) ==
    IF Len(bs) = 0 THEN <<>>
    ELSE LET i == CHOOSE i \in 1..Len(bs) :
                      /\ \A j \in 1..Len(bs) : bs[i].score >= bs[j].score
                      /\ \A j \in 1..(i - 1) : bs[j].score < bs[i].score
         IN  <<bs[i]>> \o SortByScoreDesc(RemoveAt(bs, i))

(* the lower of the two middle scores for an even count *)
BiasScore_LowerMiddle(scores) ==
    LET sorted_scores == SortInts(scores)
        n == Len(sorted_scores)
    IN  IF n = 0 THEN 0
        ELSE IF n % 2 = 1 THEN sorted_scores[n \div 2 + 1]
        ELSE sorted_scores[n \div 2]

(* lines 621-628: the median of the scores, then clamped and rounded *)
BiasScore(scores) ==
    LET sorted_scores == SortInts(scores)
        n == Len(sorted_scores)
        median == IF n % 2 = 1 THEN RInt(sorted_scores[n \div 2 + 1])
                  ELSE Rat(sorted_scores[n \div 2] + sorted_scores[n \div 2 + 1], 2)
    IN  IF n = 0 THEN 0
        ELSE Round(RMin(RInt(100), RMax(RInt(0), median)))

(* the six detector calls, lines 598-603, in the order of KINDS *)
Detect(df) ==
    <<detect_overtrading(df), detect_loss_aversion(df), detect_revenge_trading(df),
      detect_disposition_effect(df), detect_anchoring_bias(df), detect_confirmation_bias(df)>>

(* the report for one outcome [df, stats] of preprocess_trades *)
ReportOf(pre) ==
    LET df == pre.df
        found == Detect(df)
        biases == SortByScoreDesc(
                      [k \in 1..Len(SelectSeq(found, LAMBDA f : f.result.type # "none")) |->
                          SelectSeq(found, LAMBDA f : f.result.type # "none")[k].result])
    IN  IF Len(df.rows) = 0
        THEN [biases |-> <<>>, trade_flags |-> EmptyFlags, bias_score |-> 0,
              trades |-> <<>>, total_trades |-> 0, hour_counts |-> [h \in 1..24 |-> 0],
              preprocess |-> pre.stats]
        ELSE [biases |-> biases,
              trade_flags |-> [k \in Range(KINDS) |->
                                  found[CHOOSE j \in 1..6 : KINDS[j] = k].indices],
              bias_score |-> BiasScore([k \in 1..Len(biases) |-> biases[k].score]),
              trades |-> TradesOut(df.rows),
              total_trades |-> Len(df.rows),
              hour_counts |-> HourCounts(df.rows),
              preprocess |-> pre.stats]

(* every report run_analysis may return for df *)
run_analysis(df) == {ReportOf(pre) : pre \in PreprocessOutcomes(df)}

----------------------------------------------------------------------------
(* The inputs the model sends *)

T0 == 1699999200

Rw(ts, action, asset, quantity, price, pnl, balance) ==
    [timestamp |-> ts, action |-> action, asset |-> asset, quantity |-> quantity,
     price |-> price, pnl |-> pnl, balance |-> balance, notes |-> "x"]

(* rows of the short tables: valid ones (with a revenge pair, a tie on the *)
(* timestamp and a duplicate key with another pnl) and one per way of      *)
(* being invalid                                                           *)
RowDomain ==
    { Rw(T0, "BUY", "AAPL", 10, 100, -50, 1000),
      Rw(T0 + 600, "b", "AAPL", 20, 100, 30, 100000),
      Rw(T0, "SELL", "MSFT", 20, 50, 20, 100000),
      Rw(T0, "Buy", "AAPL", 10, 100, 40, 2000),
      Rw(T0 + 3600, "Hold", " AAPL", 5, 100, -10, Null),
      Rw(Null, "buy", "AAPL", 10, 100, 5, 1000),
      Rw(T0 + 600, "sell", "  ", 10, 100, 5, 1000),
      Rw(T0 + 600, NullStr, NullStr, 10, 100, 5, 1000),
      Rw(T0 + 600, "sell", "MSFT", 0, 100, Garbage, 1000),
      Rw(T0 + 600, "sell", "MSFT", Garbage, 100, 5, 1000),
      Rw(T0 + 600, "sell", "MSFT", 10, Inf, 5, 1000),
      Rw(T0 + 600, "sell", "MSFT", 10, -5, 5, 1000),
      Rw(max_ts + 1, "sell", "MSFT", 10, 100, 5, 1000),
      Rw(Garbage, "sell", "MSFT", 10, 100, 5, 1000) }

(* rows stamped at and next to the ends of the accepted range *)
BoundaryRows ==
    { Rw(t, "buy", "AAPL", 10, 100, 5, 100000) : t \in {min_ts - 1, min_ts, max_ts, max_ts + 1} }

RECURSIVE SeqsUpTo(_, _)
SeqsUpTo(S, k) ==
    IF k = 0 THEN {<<>>}
    ELSE LET shorter == SeqsUpTo(S, k - 1)
         IN  shorter \cup {Append(t, x) : t \in {u \in shorter : Len(u) = k - 1}, x \in S}

(* the generated long tables: row i of pattern p *)
Assets5 == <<"AAPL", "MSFT", "TSLA", "NVDA", "AMZN">>
BulkRow(i, p) ==
    Rw( CASE p.ts = 1 -> T0 + 600 * i
          [] p.ts = 2 -> T0 + 3600 * i
          [] OTHER -> T0 + 600 * ((i + 1) \div 2) + 2400 * (i \div 2),
        CASE p.action = 1 -> "buy"
          [] p.action = 2 -> (IF i % 2 = 0 THEN "BUY" ELSE "sell")
          [] OTHER -> (IF i = 0 THEN "SELL" ELSE "B"),
        CASE p.asset = 1 -> "AAPL"
          [] p.asset = 2 -> (IF i % 2 = 0 THEN "AAPL" ELSE "MSFT")
          [] OTHER -> Assets5[(i % 5) + 1],
        IF p.quantity = 1 THEN 10 ELSE (IF i % 2 = 0 THEN 10 ELSE 20),
        CASE p.price = 1 -> 100
          [] p.price = 2 -> (IF i % 2 = 0 THEN 100 ELSE 104)
          [] OTHER -> (IF i % 2 = 0 THEN 100 ELSE 150),
        CASE p.pnl = 1 -> (IF i % 2 = 0 THEN -50 ELSE 30)
          [] p.pnl = 2 -> (IF i % 3 = 0 THEN 40 ELSE -20)
          [] p.pnl = 3 -> (IF i = 4 THEN 5000 ELSE 10 * i - 30)
          [] OTHER -> Null,
        CASE p.balance = 1 -> 100000
          [] p.balance = 2 -> 5000
          [] p.balance = 3 -> (IF i = 3 THEN 900000 ELSE 50000 + 1000 * i)
          [] OTHER -> Null )

BulkPatterns ==
    [ts : 1..3, action : 1..3, asset : 1..3, quantity : 1..2, price : 1..3,
     pnl : 0..3, balance : 0..3]

BulkTable(p) == [i \in 1..BulkRows |-> BulkRow(i - 1, p)]

(* a long table with one loss followed ten minutes later by a trade of     *)
(* twice the quantity, and a trade an hour from then on                    *)
SparseTable ==
    [k \in 1..SparseRows |->
        Rw(IF k <= 2 THEN T0 + 600 * (k - 1) ELSE T0 + 3600 * (k - 1),
           "buy", "AAPL", IF k = 2 THEN 20 ELSE 10, 100,
           IF k = 1 THEN -50 ELSE 5, 100000)]

(* a table of trades five minutes apart, all within the hour that starts  *)
(* at T0                                                                   *)
HourTable ==
    [k \in 1..HourRows |->
        Rw(T0 + 300 * (k - 1), IF k % 2 = 0 THEN "sell" ELSE "buy",
           IF k % 2 = 0 THEN "MSFT" ELSE "AAPL", 10, 100, 5 * k - 12, 100000)]

(* two wins of 100 and a loss of 201, ten minutes apart: the losses are    *)
(* 2.01 times the wins, a loss aversion score of 25.25                     *)
SeverityTable ==
    << Rw(T0, "buy", "AAPL", 10, 100, 100, 100000),
       Rw(T0 + 600, "sell", "AAPL", 10, 100, 100, 100000),
       Rw(T0 + 1200, "buy", "AAPL", 10, 100, -201, 100000) >>

(* twelve hourly trades whose P/L has its quartiles between order         *)
(* statistics: sorted, -30 -20 -20 0 10 20 30 40 60 60 70 155              *)
QuantilePnls == <<-30, 155, -20, -20, 0, 10, 20, 30, 40, 60, 60, 70>>
QuantileTable ==
    [k \in 1..Len(QuantilePnls) |->
        Rw(T0 + 3600 * k, "buy", "AAPL", 10, 100, QuantilePnls[k], 100000)]

(* fourteen hourly trades: the first has the P/L outlier 5000 and the     *)
(* lowest balance, the last has neither P/L nor balance; once the first is *)
(* gone the balance quartiles move and two balances fall outside the fence *)
OutlierPnls == <<5000, 10, 20, 30, 40, 50, 60, 70, 80, 90, 100, 110, 120, Null>>
OutlierBalances ==
    <<500, 1000, 1000, 1000, 1200, 2000, 2000, 2000, 2000, 2000, 2000, 3300, 4000, Null>>
OutlierTable ==
    [k \in 1..Len(OutlierPnls) |->
        Rw(T0 + 3600 * k, "buy", "AAPL", 10, 100, OutlierPnls[k], OutlierBalances[k])]

(* header rows: each column is <<header text, field of the generated row>> *)
CanonicalHeaders ==
    << <<"Timestamp", "timestamp">>, <<"Buy/Sell", "action">>, <<"Asset", "asset">>,
       <<"Quantity", "quantity">>, <<"Price", "price">>, <<"P/L", "pnl">>,
       <<"Balance", "balance">> >>

HeaderVariants ==
    << << <<"Date", "timestamp">>, <<"Side", "action">>, <<"Ticker", "asset">>,
          <<"Shares", "quantity">>, <<"Entry_Price", "price">> >>,
       << <<"Timestamp", "timestamp">>, <<"Buy/Sell", "action">>,
          <<"Quantity", "quantity">>, <<"P/L", "pnl">> >>,
       << <<" Date ", "timestamp">>, <<"Time", "timestamp">>, <<"Side", "action">>,
          <<"Ticker", "asset">>, <<"Shares", "quantity">> >>,
       << <<"Timestamp", "timestamp">>, <<"Time", "timestamp">>, <<"Buy/Sell", "action">>,
          <<"Asset", "asset">>, <<"Quantity", "quantity">>, <<"Price", "price">> >>,
       << <<"Timestamp", "timestamp">>, <<"Buy/Sell", "action">>, <<"Asset", "asset">>,
          <<"Quantity", "quantity">>, <<"Price", "price">>, <<"Notes", "notes">>,
          <<"Balance", "balance">> >>,
       << <<"Asset", "asset">>, <<"Quantity", "quantity">>, <<"Price", "price">> >> >>

(* the header row of a long table: P/L and Balance are left out when the   *)
(* pattern has none                                                        *)
BulkHeaders(p) ==
    SelectSeq(CanonicalHeaders,
              LAMBDA h : /\ (h[2] = "pnl" => p.pnl # 0)
                         /\ (h[2] = "balance" => p.balance # 0))

BuildCsv(variant, recs) ==
    [headers |-> [j \in 1..Len(variant) |-> variant[j][1]],
     rows |-> [i \in 1..Len(recs) |-> [j \in 1..Len(variant) |-> recs[i][variant[j][2]]]]]

EmptyCsv == [headers |-> <<>>, rows |-> <<>>]

(* the frame a caller of run_analysis passes when it does not come from    *)
(* parse_csv_to_dataframe: the action is whatever the caller put there     *)
DirectFrame(recs) ==
    [columns |-> {COL_PNL, COL_BALANCE},
     rows |-> [i \in 1..Len(recs) |->
                  [timestamp |-> recs[i].timestamp, action |-> ToLowercase(recs[i].action),
                   asset |-> recs[i].asset, quantity |-> CastFloat(recs[i].quantity),
                   price |-> CastFloat(recs[i].price), pnl |-> CastFloat(recs[i].pnl),
                   balance |-> CastFloat(recs[i].balance)]]]

----------------------------------------------------------------------------
(* The /analyze endpoint, main.py 41-69, and direct calls of run_analysis  *)

MAX_UPLOAD_BYTES == 157286400
CHUNK_BYTES == 1048576

(* file.filename is set and file.filename.lower().endswith(".csv") *)
IsCsvName(name) == name \in {"trades.csv", "TRADES.CSV"}

VARIABLES
    file,       \* the upload: [filename, size, csv]
    entry,      \* "endpoint": a request to /analyze; "library": a call of run_analysis
    pc,         \* where the handler stands
    total,      \* bytes read so far
    buffered,   \* bytes appended to chunks
    df,         \* the parsed frame
    response,   \* [status |-> 0] until the handler ends
    cleaned,    \* run_analysis's df after line 556: the frame preprocess_trades returned
    calls,      \* how often file.read, parse_csv_to_dataframe, run_analysis were invoked
    prev,       \* the requests answered before this one: <<[file, response]>>
    returned    \* what the detector calls made outside run_analysis's own order
                \* have returned so far, in order of return: <<[kind, out]>>

vars == <<file, entry, pc, total, buffered, df, cleaned, response, calls, prev, returned>>

NoFrame == [columns |-> {}, rows |-> <<>>]
NoCalls == [read |-> 0, parse |-> 0, run_analysis |-> 0]
Pending == [status |-> 0]

HttpError(status, msg, columns) ==
    [status |-> status, detail |-> [msg |-> msg, columns |-> columns]]

(* the bytes of a CSV with a short text in every cell *)
SizeOf(csv) == 16 * Len(csv.headers) * (Len(csv.rows) + 1)

Upload(name, csv) == [filename |-> name, size |-> SizeOf(csv), csv |-> csv]

(* uploads around the ceiling; their content is one padded data row *)
UploadSizes ==
    {MAX_UPLOAD_BYTES - CHUNK_BYTES, MAX_UPLOAD_BYTES - 1, MAX_UPLOAD_BYTES,
     MAX_UPLOAD_BYTES + 1}
    \cup {MAX_UPLOAD_BYTES + k * CHUNK_BYTES + 7 : k \in 1..MaxOverChunks}

OneRowCsv == BuildCsv(CanonicalHeaders, <<Rw(T0, "buy", "AAPL", 10, 100, 5, 100000)>>)

(* the long tables sent under the headers Date, Side, Ticker, Shares,      *)
(* Entry_Price: their P/L and Balance, outliers included, are not sent     *)
SynonymPatterns ==
    {p \in BulkPatterns : p.quantity = 1 /\ p.price = 1 /\ p.pnl = 3 /\ p.balance = 3}

(* uploads of short tables, of tables under other headers, of an empty    *)
(* file and of files that are not named as CSV                             *)
ShortRequests ==
    {Upload("trades.csv", BuildCsv(CanonicalHeaders, recs)) : recs \in SeqsUpTo(RowDomain, MaxRows)}
    \cup {Upload("trades.csv", BuildCsv(CanonicalHeaders, recs)) : recs \in SeqsUpTo(BoundaryRows, 2)}
    \cup {Upload("trades.csv", BuildCsv(HeaderVariants[v], recs)) :
             v \in 1..Len(HeaderVariants), recs \in SeqsUpTo(RowDomain, 1)}
    \cup {Upload(name, OneRowCsv) : name \in {"trades.txt", ""}}
    \cup {Upload("trades.csv", EmptyCsv)}

BulkRequests(patterns) ==
    {Upload("TRADES.CSV", BuildCsv(BulkHeaders(p), BulkTable(p))) : p \in patterns}

Requests ==
    ShortRequests
    \cup BulkRequests(BulkPatterns)
    \cup {Upload("trades.csv", BuildCsv(CanonicalHeaders, SparseTable))}
    \cup {Upload("trades.csv", BuildCsv(CanonicalHeaders, SeverityTable))}
    \cup {Upload("trades.csv", BuildCsv(CanonicalHeaders, OutlierTable))}
    \cup {Upload("trades.csv", BuildCsv(CanonicalHeaders, QuantileTable))}
    \cup {Upload("trades.csv", BuildCsv(HeaderVariants[1], BulkTable(p))) : p \in SynonymPatterns}
    \cup {Upload("trades.csv", BuildCsv(CanonicalHeaders, HourTable)),
          Upload("trades.csv", BuildCsv(HeaderVariants[1], HourTable))}
    \cup {[filename |-> "trades.csv", size |-> sz, csv |-> OneRowCsv] : sz \in UploadSizes}

DirectFrames ==
    {DirectFrame(recs) :
        recs \in SeqsUpTo({r \in RowDomain : r.timestamp # Garbage}, MaxRows)}

InitOf(requests, frames) ==
    /\ \/ entry = "endpoint" /\ pc = "start" /\ file \in requests /\ df = NoFrame
       \/ entry = "library" /\ pc = "analyze" /\ file = Upload("", EmptyCsv)
          /\ df \in frames
    /\ total = 0
    /\ buffered = 0
    /\ cleaned = NoFrame
    /\ response = Pending
    /\ calls = NoCalls
    /\ prev = <<>>
    /\ returned = <<>>

Init == InitOf(Requests, DirectFrames)

(* line 47-48 *)
RejectFilename ==
    /\ pc = "start"
    /\ ~IsCsvName(file.filename)
    /\ response' = HttpError(400, "Upload a CSV file.", {})
    /\ pc' = "done"
    /\ UNCHANGED <<file, entry, total, buffered, df, cleaned, calls, prev, returned>>

AcceptFilename ==
    /\ pc = "start"
    /\ IsCsvName(file.filename)
    /\ pc' = "read"
    /\ UNCHANGED <<file, entry, total, buffered, df, cleaned, response, calls, prev, returned>>

(* the loop appending the chunk before it compares the count *)
ReadChunk_AppendFirst ==
    /\ pc = "read"
    /\ total < file.size
    /\ LET chunk == Min2(CHUNK_BYTES, file.size - total)
       IN  /\ total' = total + chunk
           /\ calls' = [calls EXCEPT !.read = @ + 1]
           /\ buffered' = buffered + chunk
           /\ IF total + chunk > MAX_UPLOAD_BYTES
              THEN /\ response' = HttpError(413, "File too large. Max 150 MB.", {})
                   /\ pc' = "done"
              ELSE UNCHANGED <<response, pc>>
    /\ UNCHANGED <<file, entry, df, cleaned, prev, returned>>

(* one turn of the loop of lines 52-56: a chunk of at most 1 MiB is read,  *)
(* counted, and appended unless the count passed the ceiling               *)
ReadChunk ==
    /\ pc = "read"
    /\ total < file.size
    /\ LET chunk == Min2(CHUNK_BYTES, file.size - total)
       IN  /\ total' = total + chunk
           /\ calls' = [calls EXCEPT !.read = @ + 1]
           /\ IF total + chunk > MAX_UPLOAD_BYTES
              THEN /\ response' = HttpError(413, "File too large. Max 150 MB.", {})
                   /\ pc' = "done"
                   /\ UNCHANGED buffered
              ELSE /\ buffered' = buffered + chunk
                   /\ UNCHANGED <<response, pc>>
    /\ UNCHANGED <<file, entry, df, cleaned, prev, returned>>

(* file.read returns b"": the loop ends and the chunks are joined, line 57 *)
ReadEnd ==
    /\ pc = "read"
    /\ total = file.size
    /\ calls' = [calls EXCEPT !.read = @ + 1]
    /\ pc' = "parse"
    /\ UNCHANGED <<file, entry, total, buffered, df, cleaned, response, prev, returned>>

(* file.read raises: lines 60-61 *)
ReadFails ==
    /\ pc = "read"
    /\ calls' = [calls EXCEPT !.read = @ + 1]
    /\ response' = HttpError(400, "Failed to read file", {})
    /\ pc' = "done"
    /\ UNCHANGED <<file, entry, total, buffered, df, cleaned, prev, returned>>

(* lines 62-63, parse_csv_to_dataframe returns *)
ParseOk ==
    /\ pc = "parse"
    /\ ParseError(file.csv) = "none"
    /\ calls' = [calls EXCEPT !.parse = @ + 1]
    /\ df' \in ParseOutcomes(file.csv)
    /\ pc' = "rows"
    /\ UNCHANGED <<file, entry, total, buffered, cleaned, response, prev, returned>>

(* lines 64-65: the ValueError of parse_csv_to_dataframe becomes a 400 with str(e) *)
ParseMissing ==
    /\ pc = "parse"
    /\ ParseError(file.csv) = "missing"
    /\ calls' = [calls EXCEPT !.parse = @ + 1]
    /\ response' = HttpError(400, "Missing required columns",
                             MissingColumns(Renamed(file.csv.headers)))
    /\ pc' = "done"
    /\ UNCHANGED <<file, entry, total, buffered, df, cleaned, prev, returned>>

(* any other exception of parse_csv_to_dataframe is not caught: a 500 *)
ParseCrash ==
    /\ pc = "parse"
    /\ ParseError(file.csv) \in {"nodata", "duplicate", "datetime"}
    /\ calls' = [calls EXCEPT !.parse = @ + 1]
    /\ response' = HttpError(500, ParseError(file.csv), {})
    /\ pc' = "done"
    /\ UNCHANGED <<file, entry, total, buffered, df, cleaned, prev, returned>>

(* lines 66-67 *)
RejectNoRows ==
    /\ pc = "rows"
    /\ Len(df.rows) = 0
    /\ response' = HttpError(400, "CSV has no data rows.", {})
    /\ pc' = "done"
    /\ UNCHANGED <<file, entry, total, buffered, df, cleaned, calls, prev, returned>>

(* the handler going on to run_analysis whatever df.height is *)
AcceptRows_AnyHeight ==
    /\ pc = "rows"
    /\ pc' = "analyze"
    /\ UNCHANGED <<file, entry, total, buffered, df, cleaned, response, calls, prev, returned>>

AcceptRows ==
    /\ pc = "rows"
    /\ Len(df.rows) # 0
    /\ pc' = "analyze"
    /\ UNCHANGED <<file, entry, total, buffered, df, cleaned, response, calls, prev, returned>>

(* lines 68-69, and a direct call of run_analysis *)
RunAnalysis ==
    /\ pc = "analyze"
    /\ calls' = [calls EXCEPT !.run_analysis = @ + 1]
    /\ \E pre \in PreprocessOutcomes(df) :
           /\ cleaned' = pre.df
           /\ response' = [status |-> 200, body |-> ReportOf(pre)]
    /\ pc' = "done"
    /\ UNCHANGED <<file, entry, total, buffered, df, prev, returned>>

Next ==
    \/ RejectFilename
    \/ AcceptFilename
    \/ ReadChunk
    \/ ReadEnd
    \/ ReadFails
    \/ ParseOk
    \/ ParseMissing
    \/ ParseCrash
    \/ RejectNoRows
    \/ AcceptRows
    \/ RunAnalysis

Spec == Init /\ [][Next]_vars

----------------------------------------------------------------------------
(* The same client sends a second request once the first is answered: the  *)
(* same bytes, or the same rows in another order                           *)

Reverse(s) == [i \in 1..Len(s) |-> s[Len(s) + 1 - i]]
Rotate(s) == IF Len(s) = 0 THEN s ELSE Tail(s) \o <<s[1]>>
Shuffles(rows) == {Reverse(rows), Rotate(rows)} \ {rows}

Restart(f) ==
    /\ pc = "done"
    /\ entry = "endpoint"
    /\ prev = <<>>
    /\ prev' = <<[file |-> file, response |-> response, cleaned |-> cleaned]>>
    /\ file' = f
    /\ pc' = "start"
    /\ total' = 0
    /\ buffered' = 0
    /\ df' = NoFrame
    /\ cleaned' = NoFrame
    /\ response' = Pending
    /\ calls' = NoCalls
    /\ UNCHANGED <<entry, returned>>

ResubmitSame == Restart(file)

ResubmitShuffled ==
    \E rows \in Shuffles(file.csv.rows) : Restart([file EXCEPT !.csv.rows = rows])

NextRepeat ==
    \/ Next
    \/ ResubmitSame
    \/ ResubmitShuffled

(* the long tables the client of the repeated requests sends *)
RepeatPatterns == {p \in BulkPatterns : p.quantity = 2 /\ p.pnl = 1 /\ p.balance = 2}

RepeatRequests == ShortRequests \cup BulkRequests(RepeatPatterns)

InitRepeat == InitOf(RepeatRequests, {})

SpecRepeat == InitRepeat /\ [][NextRepeat]_vars

----------------------------------------------------------------------------
(* Lines 575-596 of run_analysis on cleaned frames as long as the cap of   *)
(* the trades list: total_trades and trades_out are computed from the      *)
(* cleaned frame alone                                                     *)

(* a cleaned frame of n rows one minute apart *)
LongFrame(n, columns, asset, action) ==
    [columns |-> columns,
     rows |-> [i \in 1..n |->
                  [timestamp |-> T0 + 60 * i, action |-> action, asset |-> asset,
                   quantity |-> 10, price |-> 100,
                   pnl |-> IF COL_PNL \in columns THEN i - 5 ELSE Null,
                   balance |-> IF COL_BALANCE \in columns THEN 100000 ELSE Null]]]

(* short frames of every shape, and frames at and around the cap *)
LongFrames ==
    {LongFrame(n, columns, asset, "buy") :
        n \in 0..4, columns \in SUBSET {COL_PNL, COL_BALANCE},
        asset \in {"AAPL", "MSFT", "TSLA"}}
    \cup {LongFrame(n, {COL_PNL, COL_BALANCE}, "AAPL", "sell") :
              n \in {TRADES_RESPONSE_CAP - 1, TRADES_RESPONSE_CAP,
                     TRADES_RESPONSE_CAP + 1, TRADES_RESPONSE_CAP + MaxOverCap}}

InitTrades ==
    /\ entry = "library"
    /\ pc = "trades"
    /\ file = Upload("", EmptyCsv)
    /\ df = NoFrame
    /\ cleaned \in LongFrames
    /\ total = 0
    /\ buffered = 0
    /\ response = Pending
    /\ calls = [NoCalls EXCEPT !.run_analysis = 1]
    /\ prev = <<>>
    /\ returned = <<>>

(* lines 575 and 596, and the two fields of the report they fill *)
SerializeTrades ==
    /\ pc = "trades"
    /\ response' = [status |-> 200,
                    body |-> [trades |-> TradesOut(cleaned.rows),
                              total_trades |-> Len(cleaned.rows)]]
    /\ pc' = "done"
    /\ UNCHANGED <<file, entry, total, buffered, df, cleaned, calls, prev, returned>>

NextTrades == SerializeTrades

SpecTrades == InitTrades /\ [][NextTrades]_vars

----------------------------------------------------------------------------
(* Lines 598-637 with the six detector calls in any order: each call is    *)
(* one step, since a detector builds new frames with with_columns, filter  *)
(* and group_by and writes nothing another call reads                      *)

SchedulePatterns ==
    {p \in BulkPatterns : p.ts = 1 /\ p.action = 2 /\ p.asset = 2 /\ p.quantity = 1
                          /\ p.price = 1 /\ p.pnl \in {0, 2} /\ p.balance \in {0, 2}}

(* the parsed frames of the tables of SchedulePatterns *)
ScheduleFrames ==
    UNION {ParseOutcomes(BuildCsv(BulkHeaders(p), BulkTable(p))) : p \in SchedulePatterns}

InitSchedule ==
    /\ entry = "library"
    /\ pc = "detect"
    /\ file = Upload("", EmptyCsv)
    /\ df \in ScheduleFrames
    /\ cleaned \in {pre.df : pre \in PreprocessOutcomes(df)}
    /\ total = 0
    /\ buffered = 0
    /\ response = Pending
    /\ calls = [NoCalls EXCEPT !.run_analysis = 1]
    /\ prev = <<>>
    /\ returned = <<>>

(* the j-th call of lines 598-603 *)
DetectOne(j, table) ==
    CASE j = 1 -> detect_overtrading(table)
      [] j = 2 -> detect_loss_aversion(table)
      [] j = 3 -> detect_revenge_trading(table)
      [] j = 4 -> detect_disposition_effect(table)
      [] j = 5 -> detect_anchoring_bias(table)
      [] OTHER -> detect_confirmation_bias(table)

(* one of the calls of lines 598-603 runs and returns (result, indices) *)
ReturnDetector(j) ==
    /\ pc = "detect"
    /\ \A k \in 1..Len(returned) : returned[k].kind # KINDS[j]
    /\ returned' = Append(returned, [kind |-> KINDS[j], out |-> DetectOne(j, cleaned)])
    /\ UNCHANGED <<file, entry, pc, total, buffered, df, cleaned, response, calls, prev>>

(* the findings appended in the order in which the calls returned *)
AppendOrder_AsReturned(ret) == [k \in 1..Len(ret) |-> ret[k].kind]

(* lines 605-618: the results are appended by name, overtrading first *)
AppendOrder(ret) == KINDS

(* lines 605-637 over the values the six calls returned *)
ReportFrom(ret) ==
    LET out(kind) == ret[CHOOSE k \in 1..Len(ret) : ret[k].kind = kind].out
        order == AppendOrder(ret)
        found == SelectSeq([k \in 1..Len(order) |-> out(order[k])],
                           LAMBDA f : f.result.type # "none")
        biases == SortByScoreDesc([k \in 1..Len(found) |-> found[k].result])
    IN  [biases |-> biases,
         trade_flags |-> [k \in Range(KINDS) |-> out(k).indices],
         bias_score |-> BiasScore([k \in 1..Len(biases) |-> biases[k].score])]

Collect ==
    /\ pc = "detect"
    /\ Len(returned) = Len(KINDS)
    /\ response' = [status |-> 200, body |-> ReportFrom(returned)]
    /\ pc' = "done"
    /\ UNCHANGED <<file, entry, total, buffered, df, cleaned, calls, prev, returned>>

NextSchedule == (\E j \in 1..Len(KINDS) : ReturnDetector(j)) \/ Collect

SpecSchedule == InitSchedule /\ [][NextSchedule]_vars

----------------------------------------------------------------------------
(* Properties of the cleaned frame and of the report *)

Answered == pc = "done" /\ calls.run_analysis = 1
Report == response.body
Blank == {NullStr, "", " ", "  "}

(* C1: the frame preprocess_trades returns holds only rows with a known    *)
(* timestamp, an action of buy or sell, a known asset that is not blank, a *)
(* finite quantity above 0 and a finite price above 0; its timestamps      *)
(* never decrease from one row to the next; and no two rows agree on       *)
(* (timestamp, asset, action, quantity, price).                            *)
C1_CleanedValidSortedUnique ==
    Answered =>
        LET rows == cleaned.rows
            n == Len(rows)
        IN  /\ \A i \in 1..n :
                   /\ rows[i].timestamp # Null
                   /\ rows[i].action \in {"buy", "sell"}
                   /\ rows[i].asset \notin Blank
                   /\ rows[i].quantity \notin {Null, Inf} /\ rows[i].quantity > 0
                   /\ rows[i].price \notin {Null, Inf} /\ rows[i].price > 0
            /\ \A i \in 1..(n - 1) : rows[i].timestamp <= rows[i + 1].timestamp
            /\ \A i, j \in 1..n :
                   i # j => <<rows[i].timestamp, rows[i].asset, rows[i].action,
                              rows[i].quantity, rows[i].price>>
                            # <<rows[j].timestamp, rows[j].asset, rows[j].action,
                                rows[j].quantity, rows[j].price>>

(* preprocess_trades removed a row and handed on several *)
C1_Witness ==
    /\ Answered
    /\ Len(cleaned.rows) >= 2
    /\ Len(cleaned.rows) < Len(df.rows)

(* C2: the bias_score of a report is an integer from 0 to 100, every       *)
(* finding of biases has an integer score from 15 to 100, and a detector   *)
(* that computed a score below 15 has no finding in biases.                *)
C2_ScoresInRange ==
    (Answered /\ Len(cleaned.rows) > 0) =>
        /\ Report.bias_score \in 0..100
        /\ \A k \in 1..Len(Report.biases) : Report.biases[k].score \in 15..100
        /\ \A j \in 1..6 :
               LET d == Detect(cleaned)[j]
               IN  (d.computed # <<>> /\ RLt(d.computed[1], RInt(15))) =>
                       \A k \in 1..Len(Report.biases) : Report.biases[k].type # KINDS[j]

(* one detector computed a score above 0 and below 15 while another reported *)
C2_Witness ==
    /\ Answered
    /\ Len(Report.biases) >= 1
    /\ \E j \in 1..6 :
           LET d == Detect(cleaned)[j]
           IN  /\ d.computed # <<>>
               /\ RLt(RInt(0), d.computed[1])
               /\ RLt(d.computed[1], RInt(15))

(* the row of the cleaned frame at 0-based position idx *)
RowAt(idx) == cleaned.rows[idx + 1]
SameHour(idx) ==
    {i \in 1..Len(cleaned.rows) :
        cleaned.rows[i].timestamp \div 3600 = RowAt(idx).timestamp \div 3600}
SameAsset(idx) == {i \in 1..Len(cleaned.rows) : cleaned.rows[i].asset = RowAt(idx).asset}
SameSide(idx) == {i \in SameAsset(idx) : cleaned.rows[i].action = RowAt(idx).action}

(* C3: every index of each of the six trade_flags lists is at least 0 and  *)
(* below the number of rows of the cleaned frame, and the row at that      *)
(* 0-based position is one the detector flags: for overtrading a row whose *)
(* notional is above a tenth of its balance or whose hour holds more than  *)
(* five rows, for loss aversion and disposition a losing row, for revenge  *)
(* trading a row at least half again as large as the losing row at most 30 *)
(* minutes before it, for anchoring a row of an asset traded four times or *)
(* more, for confirmation bias such a row on the asset's majority side.    *)
C3_FlagsPointAtRows ==
    (Answered /\ Len(cleaned.rows) > 0) =>
        /\ \A k \in DOMAIN Report.trade_flags :
               Report.trade_flags[k] \subseteq 0..(Len(cleaned.rows) - 1)
        /\ \A idx \in Report.trade_flags["overtrading"] :
               \/ /\ RowAt(idx).balance \notin {Null, Inf}
                  /\ RowAt(idx).balance > 0
                  /\ 10 * RowAt(idx).quantity * RowAt(idx).price > RowAt(idx).balance
               \/ Cardinality(SameHour(idx)) > 5
        /\ \A idx \in Report.trade_flags["loss_aversion"] :
               idx >= 1 /\ RowAt(idx).pnl # Null /\ RowAt(idx).pnl < 0
        /\ \A idx \in Report.trade_flags["revenge_trading"] :
               /\ idx >= 1
               /\ RowAt(idx - 1).pnl # Null /\ RowAt(idx - 1).pnl < 0
               /\ RowAt(idx).timestamp - RowAt(idx - 1).timestamp \in 1..1800
               /\ 2 * RowAt(idx).quantity > 3 * RowAt(idx - 1).quantity
        /\ \A idx \in Report.trade_flags["disposition_effect"] :
               RowAt(idx).pnl # Null /\ RowAt(idx).pnl < 0
        /\ \A idx \in Report.trade_flags["anchoring"] :
               Cardinality(SameAsset(idx)) >= 4
        /\ \A idx \in Report.trade_flags["confirmation_bias"] :
               /\ Cardinality(SameAsset(idx)) >= 4
               /\ 2 * Cardinality(SameSide(idx)) >= Cardinality(SameAsset(idx))

(* the last row of the cleaned frame is flagged, and rows are flagged for  *)
(* overtrading, for revenge trading and for confirmation bias              *)
C3_Witness ==
    /\ Answered
    /\ Len(cleaned.rows) > 0
    /\ \E k \in DOMAIN Report.trade_flags : (Len(cleaned.rows) - 1) \in Report.trade_flags[k]
    /\ Report.trade_flags["overtrading"] # {}
    /\ Report.trade_flags["revenge_trading"] # {}
    /\ Report.trade_flags["confirmation_bias"] # {}

(* the scores of the findings, highest first as biases lists them *)
FindingScores == [k \in 1..Len(Report.biases) |-> Report.biases[k].score]

(* C4 as the specification states it: bias_score is the median of the      *)
(* scores of the findings, the lower of the two middle scores when their   *)
(* number is even, and 0 when there is none.                               *)
C4_LowerMedian ==
    (Answered /\ Len(cleaned.rows) > 0) =>
        LET k == Len(FindingScores)
        IN  Report.bias_score =
                IF k = 0 THEN 0
                ELSE IF k % 2 = 1 THEN FindingScores[(k + 1) \div 2]
                ELSE FindingScores[k \div 2 + 1]

(* C4: bias_score is the median of the scores of the findings: the middle  *)
(* score when their number is odd; when it is even, the mean of the two    *)
(* middle scores rounded to the nearest integer, a mean ending in .5 going *)
(* to the even neighbour; and 0 when there is no finding.                  *)
C4_MeanOfMiddleRounded ==
    (Answered /\ Len(cleaned.rows) > 0) =>
        LET k == Len(FindingScores)
            sum == FindingScores[k \div 2] + FindingScores[k \div 2 + 1]
            floor == sum \div 2
        IN  Report.bias_score =
                IF k = 0 THEN 0
                ELSE IF k % 2 = 1 THEN FindingScores[(k + 1) \div 2]
                ELSE IF sum % 2 = 0 THEN floor
                ELSE IF floor % 2 = 0 THEN floor ELSE floor + 1

(* an even number of findings whose two middle scores differ by an odd amount *)
C4_Witness ==
    /\ Answered
    /\ Len(FindingScores) >= 2
    /\ Len(FindingScores) % 2 = 0
    /\ (FindingScores[Len(FindingScores) \div 2]
        + FindingScores[Len(FindingScores) \div 2 + 1]) % 2 = 1

----------------------------------------------------------------------------
(* Properties of two requests of one client *)

BothReported ==
    /\ pc = "done"
    /\ Len(prev) = 1
    /\ response.status = 200
    /\ prev[1].response.status = 200

(* C5 as the specification states it: the pipeline run twice on the same   *)
(* bytes answers with identical reports, the same cleaned rows in the same *)
(* order, the same findings, flags and preprocess statistics, also when    *)
(* rows share a timestamp or share the key and differ in pnl or balance.   *)
C5_SameBytesSameReport ==
    (BothReported /\ prev[1].file = file) =>
        /\ prev[1].cleaned = cleaned
        /\ prev[1].response = response

(* C6 as the specification states it: two inputs holding the same rows in  *)
(* another order give the same cleaned frame, row by row, the same         *)
(* findings and the same trade_flags.                                      *)
C6_RowOrderIrrelevant ==
    (BothReported /\ prev[1].file # file) =>
        /\ prev[1].cleaned = cleaned
        /\ prev[1].response.body.biases = response.body.biases
        /\ prev[1].response.body.trade_flags = response.body.trade_flags

----------------------------------------------------------------------------
(* Properties of the empty report and of the endpoint *)

(* C7: when the frame preprocess_trades returns has no row, also when the  *)
(* frame passed in had none, run_analysis returns a report: biases empty,  *)
(* all six trade_flags lists present and empty, bias_score 0, trades       *)
(* empty, total_trades 0 and hour_counts 24 zeros.                         *)
C7_EmptyReport ==
    (Answered /\ Len(cleaned.rows) = 0) =>
        /\ response.status = 200
        /\ Report.biases = <<>>
        /\ DOMAIN Report.trade_flags =
               {"overtrading", "loss_aversion", "revenge_trading",
                "disposition_effect", "anchoring", "confirmation_bias"}
        /\ \A k \in DOMAIN Report.trade_flags : Report.trade_flags[k] = {}
        /\ Report.bias_score = 0
        /\ Report.trades = <<>>
        /\ Report.total_trades = 0
        /\ DOMAIN Report.hour_counts = 1..24
        /\ \A h \in 1..24 : Report.hour_counts[h] = 0

(* run_analysis was called with a frame of no rows *)
C7_Witness ==
    /\ Answered
    /\ entry = "library"
    /\ Len(df.rows) = 0
    /\ response.status = 200

(* C8: the endpoint answers a CSV that parses to no data row with the 400  *)
(* "CSV has no data rows." and never calls run_analysis for it; a CSV with *)
(* data rows that cleaning all removes is answered with 200 and the empty  *)
(* report; neither answer is the one for missing columns.                  *)
C8_NoRowsVersusAllCleaned ==
    /\ (entry = "endpoint" /\ pc = "analyze") => Len(df.rows) > 0
    /\ (entry = "endpoint" /\ pc = "done" /\ calls.parse = 1
        /\ ParseError(file.csv) = "none" /\ Len(file.csv.rows) = 0) =>
           /\ response = HttpError(400, "CSV has no data rows.", {})
           /\ calls.run_analysis = 0
    /\ (entry = "endpoint" /\ pc = "done" /\ calls.parse = 1
        /\ ParseError(file.csv) = "none" /\ Len(file.csv.rows) > 0) =>
           /\ response.status = 200
           /\ calls.run_analysis = 1
           /\ Len(cleaned.rows) = 0 =>
                  /\ Report.biases = <<>>
                  /\ \A k \in DOMAIN Report.trade_flags : Report.trade_flags[k] = {}
                  /\ Report.bias_score = 0
                  /\ Report.total_trades = 0

(* a CSV with data rows, all of them removed by cleaning, was answered *)
C8_Witness ==
    /\ entry = "endpoint"
    /\ Answered
    /\ Len(file.csv.rows) > 0
    /\ Len(cleaned.rows) = 0
    /\ response.status = 200

(* C9: the bytes appended to the buffer never exceed MAX_UPLOAD_BYTES;     *)
(* once the running total exceeds it the request has ended with 413, after *)
(* reads of at most 1 MiB of which the last one passed the ceiling, and    *)
(* parse_csv_to_dataframe and run_analysis were not called.                *)
C9_UploadCeiling ==
    /\ buffered <= MAX_UPLOAD_BYTES
    /\ total <= calls.read * CHUNK_BYTES
    /\ total > MAX_UPLOAD_BYTES =>
           /\ pc = "done"
           /\ response.status = 413
           /\ total - MAX_UPLOAD_BYTES <= CHUNK_BYTES
           /\ (calls.read - 1) * CHUNK_BYTES < total
           /\ buffered <= total - 1
           /\ calls.parse = 0
           /\ calls.run_analysis = 0

(* the request ended with 413 while bytes of the upload were still unread *)
C9_Witness ==
    /\ response.status = 413
    /\ total > MAX_UPLOAD_BYTES
    /\ total < file.size

(* C10 as the specification states it: parse_csv_to_dataframe fails with   *)
(* the error naming exactly the missing required columns if and only if a  *)
(* required column is absent after the headers are mapped, and the         *)
(* endpoint answers that error with a 400 carrying the message, without    *)
(* another parse and without run_analysis.                                 *)
C10_MissingColumnsIff400 ==
    (entry = "endpoint" /\ pc = "done" /\ calls.parse >= 1) =>
        LET missing == {c \in {"timestamp", "action", "asset", "quantity", "price"} :
                           \A j \in 1..Len(file.csv.headers) :
                               Renamed(file.csv.headers)[j] # c}
        IN  /\ (missing # {}) <=>
                   (response = HttpError(400, "Missing required columns", missing))
            /\ (missing # {}) => (calls.parse = 1 /\ calls.run_analysis = 0)

----------------------------------------------------------------------------
(* Properties of preprocess_trades and of the statistics it returns *)

Stats == Report.preprocess

(* the rows of the frame passed to preprocess_trades that pass the         *)
(* validity predicates, the range filter and the outlier step              *)
Survivors ==
    OutlierFilter(df.columns,
                  OutlierFilter(df.columns, SelectSeq(SelectSeq(df.rows, ValidRow), InRange),
                                COL_PNL),
                  COL_BALANCE)

(* the positions of Survivors that repeat no earlier row's key *)
FirstOccurrences ==
    {i \in 1..Len(Survivors) :
        \A j \in 1..(i - 1) : DedupKey(Survivors[j]) # DedupKey(Survivors[i])}

(* C11 as the specification states it: of the rows that survived the       *)
(* earlier filters, deduplication keeps for every (timestamp, asset,       *)
(* action, quantity, price) the first row that has it, with that row's pnl *)
(* and balance, and drops the later ones; dropped_duplicates counts the    *)
(* rows dropped so and rows_after the rows kept.                           *)
C11_FirstOccurrenceKept ==
    (Answered /\ Len(df.rows) > 0) =>
        /\ Range(cleaned.rows) = {Survivors[i] : i \in FirstOccurrences}
        /\ Len(cleaned.rows) = Cardinality(FirstOccurrences)
        /\ Stats.dropped_duplicates = Len(Survivors) - Cardinality(FirstOccurrences)
        /\ Stats.rows_after = Cardinality(FirstOccurrences)

(* C12 as the specification states it: dropped_invalid is the number of    *)
(* rows of the input that the validity predicates and the range filter     *)
(* removed, also when they removed every row.                              *)
C12_DroppedInvalidCounts ==
    Answered =>
        Stats.dropped_invalid =
            Len(df.rows) - Len(SelectSeq(SelectSeq(df.rows, ValidRow), InRange))

----------------------------------------------------------------------------
(* Properties of the findings and of the flags *)

(* the 0-based positions of the cleaned rows that come, within maxGap      *)
(* seconds and at least minGap seconds, after a losing row and have more   *)
(* than 1.5 times its quantity                                             *)
AfterLoss(minGap, maxGap) ==
    {idx \in 1..(Len(cleaned.rows) - 1) :
        /\ RowAt(idx - 1).pnl # Null /\ RowAt(idx - 1).pnl < 0
        /\ RowAt(idx).timestamp - RowAt(idx - 1).timestamp \in minGap..maxGap
        /\ 2 * RowAt(idx).quantity > 3 * RowAt(idx - 1).quantity}

FindingsOf(kind) ==
    {k \in 1..Len(Report.biases) : Report.biases[k].type = kind}

(* C14: when the cleaned frame has more than 5 rows and all of them fall   *)
(* in one clock hour, the report has an overtrading finding whose          *)
(* max_trades_per_hour is the number of rows.                              *)
C14_OneBusyHour ==
    (/\ Answered
     /\ Len(cleaned.rows) > 5
     /\ \A i \in 1..Len(cleaned.rows) :
            cleaned.rows[i].timestamp \div 3600 = cleaned.rows[1].timestamp \div 3600) =>
        /\ FindingsOf("overtrading") # {}
        /\ \A k \in FindingsOf("overtrading") :
               Report.biases[k].details.max_trades_per_hour = Len(cleaned.rows)

(* a report on more than 5 cleaned rows, all in the hour of the first *)
C14_Witness ==
    /\ Answered
    /\ Len(cleaned.rows) > 5
    /\ \A i \in 1..Len(cleaned.rows) :
           cleaned.rows[i].timestamp \div 3600 = cleaned.rows[1].timestamp \div 3600
    /\ FindingsOf("overtrading") # {}

(* the severity the breakpoints hi > mid > 25 give to an integer score *)
SeverityAt(score, hi, mid) ==
    IF score > hi THEN "critical"
    ELSE IF score > mid THEN "high"
    ELSE IF score > 25 THEN "medium" ELSE "low"

(* C15 as the specification states it: the severity of every finding is    *)
(* the one its reported score gives: critical above 75, high above 50,     *)
(* medium above 25, else low for overtrading, anchoring, confirmation_bias *)
(* and disposition_effect; critical above 70, high above 45, medium above  *)
(* 25, else low for loss_aversion and revenge_trading.                     *)
C15_SeverityFromReportedScore ==
    (Answered /\ Len(cleaned.rows) > 0) =>
        \A k \in 1..Len(Report.biases) :
            Report.biases[k].severity =
                IF Report.biases[k].type \in {"loss_aversion", "revenge_trading"}
                THEN SeverityAt(Report.biases[k].score, 70, 45)
                ELSE SeverityAt(Report.biases[k].score, 75, 50)

(* C16: the findings of biases are in order of non-increasing score.       *)
C16_BiasesByScoreDescending ==
    (Answered /\ Len(cleaned.rows) > 0) =>
        \A k \in 1..(Len(Report.biases) - 1) :
            Report.biases[k].score >= Report.biases[k + 1].score

(* three or more findings of differing scores, the overtrading finding,    *)
(* which the detectors return first, not leading the list                  *)
C16_Witness ==
    /\ Answered
    /\ Len(Report.biases) >= 3
    /\ Report.biases[1].score > Report.biases[Len(Report.biases)].score
    /\ FindingsOf("overtrading") # {}
    /\ Report.biases[1].type # "overtrading"

----------------------------------------------------------------------------
(* Properties of the parsed columns and of the trades list *)

(* the upload has the headers Date, Side, Ticker, Shares, Entry_Price and  *)
(* a date in every cell of Date *)
SynonymUpload ==
    /\ entry = "endpoint"
    /\ file.csv.headers = <<"Date", "Side", "Ticker", "Shares", "Entry_Price">>
    /\ \A i \in 1..Len(file.csv.rows) : file.csv.rows[i][1] # Garbage

(* C17: a CSV with the headers Date, Side, Ticker, Shares, Entry_Price and *)
(* no P/L or Balance column is parsed without error; preprocess_trades     *)
(* then drops no row as an outlier, and every entry of trades has p_l and  *)
(* balance null.                                                           *)
C17_SynonymHeadersNoOptionalColumns ==
    (SynonymUpload /\ pc = "done" /\ calls.parse = 1) =>
        /\ response.status = IF Len(file.csv.rows) = 0 THEN 400 ELSE 200
        /\ response.status = 400 => response.detail.msg = "CSV has no data rows."
        /\ response.status = 200 =>
               /\ Stats.dropped_outliers = 0
               /\ \A i \in 1..Len(Report.trades) :
                      Report.trades[i].p_l = Null /\ Report.trades[i].balance = Null

(* such a CSV with ten or more rows left after cleaning was answered *)
C17_Witness ==
    /\ SynonymUpload
    /\ Answered
    /\ Len(cleaned.rows) >= 10
    /\ Len(Report.trades) >= 10

(* C18: total_trades is the number of rows of the cleaned frame, trades    *)
(* holds the first min(total_trades, 10000) of them in their order, and    *)
(* trades[i] is the cleaned row at index i.                                *)
C18_TradesAreFirstCleanedRows ==
    (Answered /\ response.status = 200) =>
        /\ Report.total_trades = Len(cleaned.rows)
        /\ Len(Report.trades) =
               IF Len(cleaned.rows) <= 10000 THEN Len(cleaned.rows) ELSE 10000
        /\ \A i \in 1..Len(Report.trades) :
               /\ Report.trades[i].timestamp = cleaned.rows[i].timestamp
               /\ Report.trades[i].buy_sell = cleaned.rows[i].action
               /\ Report.trades[i].asset = cleaned.rows[i].asset
               /\ Report.trades[i].quantity = cleaned.rows[i].quantity
               /\ Report.trades[i].price = cleaned.rows[i].price
               /\ Report.trades[i].p_l = cleaned.rows[i].pnl
               /\ Report.trades[i].balance = cleaned.rows[i].balance

(* a cleaned frame of more than 10000 rows was serialised *)
C18_Witness ==
    /\ Answered
    /\ response.status = 200
    /\ Report.total_trades > 10000
    /\ Len(Report.trades) = 10000

----------------------------------------------------------------------------
(* Properties of the range filter and of the outlier step *)

(* C19 as the specification states it: the range filter keeps a row        *)
(* exactly when its timestamp is at least 631152000 and below 1893456000,  *)
(* so that, where no outlier is dropped, the keys of the cleaned rows are  *)
(* the keys of the valid input rows stamped in that half-open interval.    *)
C19_HalfOpenRange ==
    (Answered /\ Stats.dropped_outliers = 0) =>
        {DedupKey(cleaned.rows[i]) : i \in 1..Len(cleaned.rows)} =
            {DedupKey(df.rows[i]) :
                i \in {j \in 1..Len(df.rows) :
                          /\ ValidRow(df.rows[j])
                          /\ df.rows[j].timestamp >= 631152000
                          /\ df.rows[j].timestamp < 1893456000}}

(* four times the q-quantile, q = qn / 4, of a non-empty sequence of       *)
(* integers by linear interpolation between the order statistics next to   *)
(* position (len - 1) * q                                                  *)
LinearQuantile4(vals, qn) ==
    LET sorted == SortInts(vals)
        pos4 == (Len(vals) - 1) * qn
        lo == pos4 \div 4
        frac4 == pos4 % 4
    IN  IF frac4 = 0 THEN 4 * sorted[lo + 1]
        ELSE 4 * sorted[lo + 1] + frac4 * (sorted[lo + 2] - sorted[lo + 1])

(* the rows the outlier step keeps for column col when Q1 and Q3 are the   *)
(* linear quantiles                                                        *)
LinearOutlierFilter(columns, rows, col) ==
    LET known == SelectSeq([i \in 1..Len(rows) |-> rows[i][col]], LAMBDA v : v # Null)
        q1 == LinearQuantile4(known, 1)
        q3 == LinearQuantile4(known, 3)
        iqr == q3 - q1
    IN  IF col \notin columns \/ Len(rows) < 10 \/ Len(known) < 10 THEN rows
        ELSE IF iqr <= 0 THEN rows
        ELSE SelectSeq(rows, LAMBDA r :
                 \/ r[col] = Null
                 \/ (8 * r[col] >= 2 * q1 - 3 * iqr /\ 8 * r[col] <= 2 * q3 + 3 * iqr))

(* C20 as the specification states it: the outlier step removes, first for *)
(* pnl and then for balance, the rows whose value is known and outside     *)
(* [Q1 - 1.5 IQR, Q3 + 1.5 IQR], Q1 and Q3 being the 0.25 and 0.75         *)
(* quantiles of the known values by linear interpolation.                  *)
C20_LinearQuantileFences ==
    (Answered /\ Len(df.rows) > 0) =>
        LET ranged == SelectSeq(SelectSeq(df.rows, ValidRow), InRange)
            kept == LinearOutlierFilter(df.columns,
                        LinearOutlierFilter(df.columns, ranged, COL_PNL), COL_BALANCE)
        IN  /\ Stats.dropped_outliers = Len(ranged) - Len(kept)
            /\ {DedupKey(cleaned.rows[i]) : i \in 1..Len(cleaned.rows)}
               = {DedupKey(kept[i]) : i \in 1..Len(kept)}

(* the rows of the input frame that pass the validity predicates and the   *)
(* range filter                                                            *)
Ranged == SelectSeq(SelectSeq(df.rows, ValidRow), InRange)

(* the known values of a column *)
Known(rows, col) == SelectSeq([i \in 1..Len(rows) |-> rows[i][col]], LAMBDA v : v # Null)

(* the rows a fence on column col leaves: all of them when the column is   *)
(* absent, has fewer than 10 known values or an IQR that is not positive;  *)
(* else the rows without a value and the rows within 1.5 IQR of the        *)
(* quartiles of the known values                                           *)
Fenced(rows, col) ==
    IF col \notin df.columns \/ Len(Known(rows, col)) < 10 THEN rows
    ELSE LET q1 == Quantile(Known(rows, col), 1)
             q3 == Quantile(Known(rows, col), 3)
         IN  IF q3 - q1 <= 0 THEN rows
             ELSE SelectSeq(rows, LAMBDA r :
                      \/ r[col] = Null
                      \/ /\ 2 * r[col] >= 2 * q1 - 3 * (q3 - q1)
                         /\ 2 * r[col] <= 2 * q3 + 3 * (q3 - q1))

KeysOf(rows) == {DedupKey(rows[i]) : i \in 1..Len(rows)}

(* C21: the outlier step removes no row for a column with fewer than 10    *)
(* known values or an IQR that is not positive and no row without a value  *)
(* in the column; the fence of balance is computed over the rows the fence *)
(* of pnl left, and dropped_outliers is the number of rows the two fences  *)
(* removed.                                                                *)
C21_SequentialFences ==
    (Answered /\ Len(df.rows) > 0) =>
        /\ Stats.dropped_outliers =
               (Len(Ranged) - Len(Fenced(Ranged, "pnl")))
               + (Len(Fenced(Ranged, "pnl")) - Len(Fenced(Fenced(Ranged, "pnl"), "balance")))
        /\ KeysOf(cleaned.rows) = KeysOf(Fenced(Fenced(Ranged, "pnl"), "balance"))

(* both fences removed rows, the fence of balance over all rows would have *)
(* removed other rows than it did, and a row without pnl and balance is    *)
(* among the cleaned rows                                                  *)
C21_Witness ==
    /\ Answered
    /\ Len(df.rows) > 0
    /\ Len(Fenced(Ranged, "pnl")) < Len(Ranged)
    /\ Len(Fenced(Fenced(Ranged, "pnl"), "balance")) < Len(Fenced(Ranged, "pnl"))
    /\ KeysOf(Fenced(Fenced(Ranged, "pnl"), "balance"))
           # KeysOf(Fenced(Ranged, "pnl")) \cap KeysOf(Fenced(Ranged, "balance"))
    /\ \E i \in 1..Len(cleaned.rows) :
           cleaned.rows[i].pnl = Null /\ cleaned.rows[i].balance = Null
    /\ Stats.dropped_outliers = 3

(* the raw cell of row i of the uploaded file under the canonical column   *)
RawCell(i, name) == file.csv.rows[i][ColIdx(Renamed(file.csv.headers), name)]

(* the raw action texts that read buy or b once lower-cased *)
BuyTexts == {"buy", "Buy", "BUY", "b", "B"}

ExpectedAction(i) == IF RawCell(i, "action") \in BuyTexts THEN "buy" ELSE "sell"

(* C22: after parse_csv_to_dataframe the action of a row is buy when its   *)
(* raw text lower-cased is buy or b and sell for every other raw value,    *)
(* a missing one included; the action predicate of preprocess_trades then  *)
(* holds of every row.                                                     *)
C22_ActionIsBuyOrSell ==
    (entry = "endpoint" /\ df # NoFrame) =>
        /\ Len(df.rows) = Len(file.csv.rows)
        /\ \A ts \in {RawCell(i, "timestamp") : i \in 1..Len(file.csv.rows)} :
           \A a \in {"buy", "sell"} \cup {df.rows[i].action : i \in 1..Len(df.rows)} :
               Cardinality({i \in 1..Len(df.rows) :
                               df.rows[i].timestamp = ts /\ df.rows[i].action = a})
               = Cardinality({i \in 1..Len(file.csv.rows) :
                               RawCell(i, "timestamp") = ts /\ ExpectedAction(i) = a})
        /\ \A i \in 1..Len(df.rows) : valid_action(df.rows[i])

(* a file with a row of action Hold was parsed and analysed, and the row   *)
(* is among the cleaned rows as a sell                                     *)
C22_Witness ==
    /\ Answered
    /\ entry = "endpoint"
    /\ calls.parse = 1
    /\ \E i \in 1..Len(file.csv.rows) : RawCell(i, "action") = "Hold"
    /\ \E i \in 1..Len(cleaned.rows) :
           cleaned.rows[i].asset = " AAPL" /\ cleaned.rows[i].action = "sell"

(* the trades of the cleaned table in the 1-hour bucket of timestamp ts *)
InBucket(ts) ==
    Cardinality({i \in 1..Len(cleaned.rows) :
                    cleaned.rows[i].timestamp \div 3600 = ts \div 3600})

BusiestBucket == MaxOf({InBucket(cleaned.rows[i].timestamp) : i \in 1..Len(cleaned.rows)})

BucketCount == Cardinality({cleaned.rows[i].timestamp \div 3600 : i \in 1..Len(cleaned.rows)})

(* the rows whose notional exceeds 10% of their balance *)
OverBalanceRows ==
    IF "balance" \in cleaned.columns
    THEN {i \in 1..Len(cleaned.rows) : OverBalance(cleaned.rows[i])}
    ELSE {}

(* min(100, F + B) with the share of rows over 10% of their balance in B *)
OvertradingScoreByShare ==
    LET ratio == RDiv(RInt(BusiestBucket),
                      RMax(Rat(Len(cleaned.rows), BucketCount), Rat(1, 2)))
        F == IF RLt(RInt(1), ratio)
             THEN RMin(RInt(50), RMul(RSub(ratio, RInt(1)), RInt(25)))
             ELSE RInt(0)
        B == RMin(RInt(50), RMul(Rat(Cardinality(OverBalanceRows), Len(cleaned.rows)), RInt(250)))
    IN  RMin(RInt(100), RAdd(F, B))

(* C23: the overtrading score before suppression is min(100, F + B) with   *)
(* F = min(50, (ratio - 1) * 25) when ratio > 1, ratio the busiest 1-hour  *)
(* bucket over max(mean per bucket, 0.5), and B = min(50, 250 * the share  *)
(* of rows whose notional exceeds 10% of their balance).                   *)
C23_ScoreFromBalanceShare ==
    (Answered /\ Len(cleaned.rows) >= 2) =>
        Detect(cleaned)[1].computed = <<OvertradingScoreByShare>>

----------------------------------------------------------------------------
(* Properties of the order of the detector calls *)

(* the report of the six calls made in the order of lines 598-603 *)
InSourceOrder == ReportOf([df |-> cleaned, stats |-> <<>>])

----------------------------------------------------------------------------
(* Properties of what a detector returns when it reports nothing *)

(* pnl over notional is a finite number *)
HasReturn(r) == r.pnl # Null /\ r.pnl # Inf /\ r.quantity * r.price # 0

(* cleaned rows with a pnl of the given sign: after the first row, which   *)
(* has no previous trade, and with a finite return proxy                   *)
WithGap(sign) ==
    {i \in 2..Len(cleaned.rows) : cleaned.rows[i].pnl # Null /\ cleaned.rows[i].pnl * sign > 0}
WithReturn(sign) ==
    {i \in 1..Len(cleaned.rows) : HasReturn(cleaned.rows[i]) /\ cleaned.rows[i].pnl * sign > 0}

(* no asset has 4 cleaned rows *)
NoAssetWithFour ==
    \A i \in 1..Len(cleaned.rows) :
        Cardinality({j \in 1..Len(cleaned.rows) :
                        cleaned.rows[j].asset = cleaned.rows[i].asset}) < 4

NothingFor(kind) == FindingsOf(kind) = {} /\ Report.trade_flags[kind] = {}

(* C25: a detector whose minimum of data is not met returns no finding and *)
(* no flag: overtrading and revenge trading under 2 rows; loss aversion    *)
(* under 3 rows or without a winning and a losing row that have a gap to   *)
(* the previous trade; disposition effect under 8 rows or under 3 wins or  *)
(* 3 losses with a finite return proxy; anchoring and confirmation bias    *)
(* under 10 rows or with no asset of at least 4 trades.                    *)
C25_NothingBelowMinimum ==
    Answered =>
        LET n == Len(cleaned.rows)
        IN  /\ n < 2 => NothingFor("overtrading") /\ NothingFor("revenge_trading")
            /\ (n < 3 \/ WithGap(1) = {} \/ WithGap(-1) = {}) => NothingFor("loss_aversion")
            /\ (n < 8 \/ Cardinality(WithReturn(1)) < 3 \/ Cardinality(WithReturn(-1)) < 3)
                   => NothingFor("disposition_effect")
            /\ (n < 10 \/ NoAssetWithFour)
                   => NothingFor("anchoring") /\ NothingFor("confirmation_bias")

(* ten or more cleaned rows at one price and all on the buy side, of which *)
(* no asset has 4, and another detector reported a finding                 *)
C25_Witness ==
    /\ Answered
    /\ Len(cleaned.rows) >= 10
    /\ NoAssetWithFour
    /\ \A i \in 1..Len(cleaned.rows) : cleaned.rows[i].price = cleaned.rows[1].price
    /\ \A i \in 1..Len(cleaned.rows) : cleaned.rows[i].action = "buy"
    /\ Len(Report.biases) >= 1

----------------------------------------------------------------------------
(* Properties of the preprocess statistics *)

(* C26: for every input table the stats of preprocess_trades have          *)
(* rows_after equal to the number of cleaned rows and rows_before =        *)
(* dropped_invalid + dropped_outliers + dropped_duplicates + rows_after,   *)
(* also for an input of no rows and for an input whose rows are all        *)
(* invalid.                                                                *)
C26_EveryRowAccounted ==
    Answered =>
        /\ "rows_after" \in DOMAIN Stats
        /\ Stats.rows_after = Len(cleaned.rows)
        /\ Stats.rows_before = Len(df.rows)
        /\ Stats.rows_before = Stats.dropped_invalid + Stats.dropped_outliers
                               + Stats.dropped_duplicates + Stats.rows_after

----------------------------------------------------------------------------
(* Properties that tie the flags to the findings and to the sign of pnl *)

(* C27: a detector kind with a non-empty trade_flags list has a finding of *)
(* that kind in biases; a detector that suppresses its finding returns no  *)
(* flags.                                                                  *)
C27_FlagsOnlyWithFinding ==
    Answered =>
        \A kind \in DOMAIN Report.trade_flags :
            Report.trade_flags[kind] # {} => FindingsOf(kind) # {}

(* a trade follows a loss within 30 minutes with more than 1.5 times its   *)
(* quantity, revenge trading is not reported and flags no row, and another *)
(* detector reports and flags rows                                         *)
C27_Witness ==
    /\ Answered
    /\ Len(cleaned.rows) > 0
    /\ AfterLoss(1, 1800) # {}
    /\ FindingsOf("revenge_trading") = {}
    /\ Report.trade_flags["revenge_trading"] = {}
    /\ \E kind \in DOMAIN Report.trade_flags :
           Report.trade_flags[kind] # {} /\ FindingsOf(kind) # {}

(* the cleaned rows that are not losing: winning, flat or without pnl *)
NotLosing ==
    {idx \in 0..(Len(cleaned.rows) - 1) : RowAt(idx).pnl = Null \/ RowAt(idx).pnl >= 0}

(* C28: every index of trade_flags.loss_aversion and of                    *)
(* trade_flags.disposition_effect is a cleaned row with a negative pnl;    *)
(* winning rows, rows of pnl zero and rows without pnl are not flagged by  *)
(* these two detectors.                                                    *)
C28_OnlyLosingRowsFlagged ==
    (Answered /\ Len(cleaned.rows) > 0) =>
        /\ Report.trade_flags["loss_aversion"] \cap NotLosing = {}
        /\ Report.trade_flags["disposition_effect"] \cap NotLosing = {}

(* both detectors flag rows of a table that has winning rows *)
C28_Witness ==
    /\ Answered
    /\ Len(cleaned.rows) > 0
    /\ Report.trade_flags["loss_aversion"] # {}
    /\ Report.trade_flags["disposition_effect"] # {}
    /\ \E idx \in NotLosing : RowAt(idx).pnl # Null /\ RowAt(idx).pnl > 0

====
